---- MODULE Spec2Model ----
(***************************************************************************)
(* A model of the MLB pitcher analyzer's data-collection layer:            *)
(*   - api/rate_limiter.py    RateLimiter and TimeWindowRateLimiter        *)
(*   - storage/local_storage.py  LocalStorage over one sqlite3 connection  *)
(*   - storage/schema.py      SCHEMA_DEFINITIONS (tables and foreign keys) *)
(*   - storage/sync.py        DataSynchronizer's sync log                  *)
(* Each component has its own specification (SpecRate, SpecWindow,         *)
(* SpecStorage, SpecSync); the variables of the other components stay at   *)
(* their parked values.                                                    *)
(***************************************************************************)
EXTENDS Integers, Sequences, FiniteSets, TLC

VARIABLES
    \* ---- the wall clock, in ticks (TicksPerMs ticks make a millisecond)
    now,
    \* ---- RateLimiter (rate_limiter.py:21-123)
    rate_limit_ms,       \* self.rate_limit_ms
    max_retries,         \* self.max_retries
    last_request_time,   \* self.last_request_time, whole milliseconds
    pc,                  \* position of the caller inside execute
    retries,             \* execute's local retry counter
    attempts,            \* invocations of request_func in the current execute
    invoked,             \* invocations of request_func over the whole run
    prevStart,           \* clock at the start of the invocation before the last (-1: none)
    lastStart,           \* clock at the start of the last invocation (-1: none)
    prevStamp,           \* last_request_time before the last wait_if_needed
    lastWait,            \* milliseconds the last wait_if_needed slept
    pendingBackoff,      \* backoff computed by the except block, not yet slept
    backoffLog,          \* the backoffs slept in the current execute: <<[n, ticks]>>
    \* ---- TimeWindowRateLimiter (rate_limiter.py:126-176)
    max_requests,        \* self.max_requests
    time_window_seconds, \* self.time_window_seconds
    request_timestamps,  \* self.request_timestamps
    recorded,            \* every timestamp wait_if_needed ever appended
    \* ---- DataSynchronizer's log file (sync.py:28-188)
    last_sync,           \* sync_log["last_sync"]: data type -> ISO timestamp
    sync_history,        \* sync_log["sync_history"]
    syncOps,             \* operations performed on the synchronizer
    \* ---- LocalStorage and its sqlite3 connection (local_storage.py)
    connection,          \* self.connection: "closed" (None) or "open"
    connects,            \* connections sqlite3.connect has handed out so far
    foreign_keys,        \* PRAGMA foreign_keys of the open connection
    tables,              \* the tables that exist in the database file
    committed,           \* table -> rows, as committed to the database file
    working,             \* table -> rows, as the connection sees them
    in_transaction,      \* the connection has an open transaction
    calls,               \* the number of storage methods called so far
    lastCall,            \* the storage method called last and its argument
    conflict,            \* the last upsert took its ON CONFLICT DO UPDATE branch
    result,              \* what it raised or returned
    executed,            \* the cursor.execute calls it issued
    lastQuery,           \* ORDER BY of the leaderboard query issued last
    \* ---- the arguments and results of merge_data and detect_changes (sync.py:218-320)
    source_data,         \* source_data of merge_data, new_data of detect_changes
    target_data,         \* target_data of merge_data, old_data of detect_changes
    dataOp,              \* the function applied to them ("none": not yet)
    merged_data,         \* what merge_data returned
    changes,             \* what detect_changes returned: added, updated, removed
    \* ---- DataBackup and the files it works on (sync.py:323-670)
    wall,                \* the wall clock DataBackup reads (ClockPerSecond units a second)
    db_exists,           \* the live database file exists
    db_mtime,            \* its modification time
    backups,             \* backup_dir/*.sqlite: name -> [mtime, made, content]
    zips,                \* backup_dir/*.zip: name -> [mtime, made, content]
    pre_restores,        \* <db>.pre_restore_<stamp> files: stamp -> content
    data_dirs,           \* the content of the processed and raw data directories
    bpc,                 \* position inside the backup or restore operation
    bop,                 \* the operation under way or finished last
    bresult,             \* what the last finished operation returned
    backupOps,           \* backup and restore operations started so far
    \* ---- TokenManager (authentication.py:38-149)
    token_data,          \* self.token_data: TokenNone or a dict
    token_expiry,        \* self.token_expiry: NoExpiry or an instant (minutes)
    auth_clock,          \* datetime.now() as TokenManager reads it (minutes)
    auth_op,             \* the TokenManager method called last
    auth_result,         \* what it returned
    auth_attempt,        \* the token request it made: "none", "refresh", "new"
    \* ---- the settings module (settings.py)
    environ,             \* os.environ: the variables that are set
    config_yaml,         \* config.yaml at the project root
    settings_loaded,     \* the module has been imported
    CONFIG,              \* settings.CONFIG
    \* ---- the logging module's loggers, as setup_logger leaves them (logger.py)
    loggers,             \* name -> [level, handlers] of logging.getLogger(name)
    handlers_made,       \* handler objects constructed so far
    logger_calls,        \* calls of setup_logger so far
    logger_returned,     \* the name of the logger the last call returned
    \* ---- CSVParser.save_to_csv and read_csv (csv_parser.py)
    csv_data,            \* the rows handed to save_to_csv, with their key order
    csv_file,            \* the characters of the written file
    csv_read,            \* the rows read_csv returned
    csv_pc               \* "start", "saved", "read"

rateVars   == <<rate_limit_ms, max_retries, last_request_time, pc, retries, attempts,
                invoked, prevStart, lastStart, prevStamp, lastWait, pendingBackoff,
                backoffLog>>
windowVars == <<max_requests, time_window_seconds, request_timestamps, recorded>>
syncVars   == <<last_sync, sync_history, syncOps>>
storageVars == <<connection, connects, foreign_keys, tables, committed, working, in_transaction,
                 calls, lastCall, conflict, result, executed, lastQuery>>
dataVars   == <<source_data, target_data, dataOp, merged_data, changes>>
backupVars == <<wall, db_exists, db_mtime, backups, zips, pre_restores, data_dirs,
                bpc, bop, bresult, backupOps>>
authVars   == <<token_data, token_expiry, auth_clock, auth_op, auth_result, auth_attempt>>
settingsVars == <<environ, config_yaml, settings_loaded, CONFIG>>
loggerVars == <<loggers, handlers_made, logger_calls, logger_returned>>
csvVars    == <<csv_data, csv_file, csv_read, csv_pc>>
utilVars   == <<authVars, settingsVars, loggerVars, csvVars>>
vars       == <<now, rateVars, windowVars, syncVars, storageVars, dataVars, backupVars,
                utilVars>>

\* What the operations of one component leave alone.
notRate    == <<windowVars, syncVars, storageVars, dataVars, backupVars, utilVars>>
notWindow  == <<rateVars, syncVars, storageVars, dataVars, backupVars, utilVars>>
notSync    == <<rateVars, windowVars, storageVars, dataVars, backupVars, utilVars>>
notStorage == <<now, rateVars, windowVars, syncVars, dataVars, backupVars, utilVars>>
notData    == <<now, rateVars, windowVars, syncVars, storageVars, backupVars, utilVars>>
notBackup  == <<now, rateVars, windowVars, syncVars, dataVars, utilVars>>
coreVars   == <<now, rateVars, windowVars, syncVars, storageVars, dataVars, backupVars>>
notAuth    == <<coreVars, settingsVars, loggerVars, csvVars>>
notSettings == <<coreVars, authVars, loggerVars, csvVars>>
notLogger  == <<coreVars, authVars, settingsVars, csvVars>>
notCsv     == <<coreVars, authVars, settingsVars, loggerVars>>

----------------------------------------------------------------------------
(* Time.                                                                   *)

\* Clock resolution of the model: time.time() is a float, so instants fall
\* between whole milliseconds.
TicksPerMs == 2
MsPerSecond == 1000
TicksPerSecond == MsPerSecond * TicksPerMs

\* The wall clock when the limiter is constructed (epoch time is positive).
StartTime == 11

\* int(time.time() * 1000)
TimeMs(t) == t \div TicksPerMs

----------------------------------------------------------------------------
(* RateLimiter.                                                            *)

MaxRetries == 3
MaxInvocations == 4
RateLimits == {1, 2}

\* Time that passes between two execute calls of the caller.
CallGaps == {0, 1, 5}
\* time.sleep returns no earlier than asked; it may return later.
SleepOvershoot == {0, 1}
\* Time between wait_if_needed recording the request time and request_func starting.
StartDelays == {0, 1}

retry_backoff_base == 2

RateParked ==
    /\ rate_limit_ms = 0 /\ max_retries = 0 /\ last_request_time = 0
    /\ pc = "idle" /\ retries = 0 /\ attempts = 0 /\ invoked = 0
    /\ prevStart = -1 /\ lastStart = -1 /\ prevStamp = 0 /\ lastWait = 0
    /\ pendingBackoff = 0 /\ backoffLog = <<>>

\* RateLimiter.__init__
RateInit ==
    /\ rate_limit_ms \in RateLimits
    /\ max_retries \in 0..MaxRetries
    /\ last_request_time = 0
    /\ pc = "idle" /\ retries = 0 /\ attempts = 0 /\ invoked = 0
    /\ prevStart = -1 /\ lastStart = -1 /\ prevStamp = 0 /\ lastWait = 0
    /\ pendingBackoff = 0 /\ backoffLog = <<>>

\* A wrong variant of WaitMs, which C2 rules out.
WaitMsElapsed(t, last, limit) ==
    LET elapsed_ms == TimeMs(t) - last
    IN  IF elapsed_ms < limit /\ last > 0 THEN elapsed_ms ELSE 0
\* The milliseconds wait_if_needed sleeps when entered at clock t.
WaitMs(t, last, limit) ==
    LET elapsed_ms == TimeMs(t) - last
    IN  IF elapsed_ms < limit /\ last > 0 THEN limit - elapsed_ms ELSE 0

\* The caller enters execute: retries = 0, last_error = None.
Execute ==
    /\ pc \in {"idle", "returned", "raised"}
    /\ invoked < MaxInvocations
    /\ \E g \in CallGaps : now' = now + g
    /\ retries' = 0 /\ attempts' = 0 /\ backoffLog' = <<>> /\ pendingBackoff' = 0
    /\ pc' = "wait"
    /\ UNCHANGED <<rate_limit_ms, max_retries, last_request_time, invoked,
                   prevStart, lastStart, prevStamp, lastWait>>
    /\ UNCHANGED notRate

\* RateLimiter.wait_if_needed, called at the top of the try block.
WaitIfNeeded ==
    /\ pc = "wait"
    /\ invoked < MaxInvocations
    /\ \E o \in SleepOvershoot :
         LET w    == WaitMs(now, last_request_time, rate_limit_ms)
             woke == IF w > 0 THEN now + w * TicksPerMs + o ELSE now
         IN  /\ (w = 0 => o = 0)
             /\ now' = woke
             /\ last_request_time' = TimeMs(woke)
             /\ lastWait' = w
    /\ prevStamp' = last_request_time
    /\ pc' = "call"
    /\ UNCHANGED <<rate_limit_ms, max_retries, retries, attempts, invoked,
                   prevStart, lastStart, pendingBackoff, backoffLog>>
    /\ UNCHANGED notRate

\* request_func() starts d ticks after the request time was recorded.
Started(d) ==
    /\ pc = "call"
    /\ now' = now + d
    /\ prevStart' = lastStart
    /\ lastStart' = now + d
    /\ attempts' = attempts + 1
    /\ invoked' = invoked + 1

\* return request_func()
RequestSucceeds ==
    /\ \E d \in StartDelays : Started(d)
    /\ pc' = "returned"
    /\ UNCHANGED <<rate_limit_ms, max_retries, last_request_time, retries,
                   prevStamp, lastWait, pendingBackoff, backoffLog>>
    /\ UNCHANGED notRate

\* A wrong variant of Exhausted, which C1 rules out.
ExhaustedOffByOne(r, m) == r >= m
\* if retries > self.max_retries
Exhausted(r, m) == r > m

\* A wrong variant of BaseBackoff, which C4 rules out.
BaseBackoffLinear(retry_count) == retry_backoff_base * retry_count
\* self.retry_backoff_base ** retry_count, in seconds
BaseBackoff(retry_count) == retry_backoff_base ^ retry_count

\* random.uniform(0, hi): a value of [0, hi); the model draws the least, the
\* middle and the greatest tick of the interval.
RandomUniform(hi) == {0, hi \div 2, hi - 1}

\* _calculate_backoff_time: base_backoff + uniform(0, 0.2 * base_backoff), in ticks
CalculateBackoffTime(retry_count) ==
    LET base_backoff == BaseBackoff(retry_count) * TicksPerSecond
    IN  { base_backoff + jitter : jitter \in RandomUniform((2 * base_backoff) \div 10) }

\* request_func() raises, retries are exhausted: raise RuntimeError from last_error
RequestFailsExhausted ==
    /\ \E d \in StartDelays : Started(d)
    /\ retries' = retries + 1
    /\ Exhausted(retries + 1, max_retries)
    /\ pc' = "raised"
    /\ UNCHANGED <<rate_limit_ms, max_retries, last_request_time,
                   prevStamp, lastWait, pendingBackoff, backoffLog>>
    /\ UNCHANGED notRate

\* request_func() raises and a retry follows: the backoff is computed
RequestFailsRetry ==
    /\ \E d \in StartDelays : Started(d)
    /\ retries' = retries + 1
    /\ ~Exhausted(retries + 1, max_retries)
    /\ pendingBackoff' \in CalculateBackoffTime(retries + 1)
    /\ pc' = "backoff"
    /\ UNCHANGED <<rate_limit_ms, max_retries, last_request_time,
                   prevStamp, lastWait, backoffLog>>
    /\ UNCHANGED notRate

\* time.sleep(backoff_seconds), then the while loop iterates
BackoffSleep ==
    /\ pc = "backoff"
    /\ now' = now + pendingBackoff
    /\ backoffLog' = Append(backoffLog, [n |-> retries, ticks |-> pendingBackoff])
    /\ pendingBackoff' = 0
    /\ pc' = "wait"
    /\ UNCHANGED <<rate_limit_ms, max_retries, last_request_time, retries, attempts,
                   invoked, prevStart, lastStart, prevStamp, lastWait>>
    /\ UNCHANGED notRate

NextRate ==
    \/ Execute
    \/ WaitIfNeeded
    \/ RequestSucceeds
    \/ RequestFailsExhausted
    \/ RequestFailsRetry
    \/ BackoffSleep

----------------------------------------------------------------------------
(* TimeWindowRateLimiter.                                                  *)

MaxWindowCalls == 5
WindowConfigs == {[max_requests |-> 1, time_window_seconds |-> 1],
                  [max_requests |-> 2, time_window_seconds |-> 1],
                  [max_requests |-> 2, time_window_seconds |-> 2]}

WindowParked ==
    /\ max_requests = 0 /\ time_window_seconds = 0
    /\ request_timestamps = <<>> /\ recorded = <<>>

\* TimeWindowRateLimiter.__init__
WindowInit ==
    /\ \E c \in WindowConfigs :
         /\ max_requests = c.max_requests
         /\ time_window_seconds = c.time_window_seconds
    /\ request_timestamps = <<>> /\ recorded = <<>>

RECURSIVE SeqMin(_)
SeqMin(s) ==
    IF Len(s) = 1 THEN s[1]
    ELSE LET m == SeqMin(Tail(s)) IN IF s[1] < m THEN s[1] ELSE m

WindowTicks == time_window_seconds * TicksPerSecond

\* Time between two calls of wait_if_needed: none, a tick, most of or all of
\* the window.
WindowGaps == {0, 1, WindowTicks - 1, WindowTicks}

\* [ts for ts in self.request_timestamps if ts >= window_start_time]
InWindow(ts, window_start_time) == ts >= window_start_time

\* TimeWindowRateLimiter.wait_if_needed, entered g ticks after the last call
\* returned.
TimeWindowWaitIfNeeded ==
    /\ Len(recorded) < MaxWindowCalls
    /\ \E g \in WindowGaps, o \in SleepOvershoot :
         LET current_time == now + g
             window_start_time == current_time - WindowTicks
             kept == SelectSeq(request_timestamps,
                               LAMBDA ts : InWindow(ts, window_start_time))
             wait_time == IF Len(kept) >= max_requests
                          THEN (SeqMin(kept) + WindowTicks) - current_time
                          ELSE 0
             woke == IF wait_time > 0 THEN current_time + wait_time + o
                     ELSE current_time
         IN  /\ (wait_time <= 0 => o = 0)
             /\ now' = woke
             /\ request_timestamps' = Append(kept, woke)
             /\ recorded' = Append(recorded, woke)
    /\ UNCHANGED <<max_requests, time_window_seconds>>
    /\ UNCHANGED notWindow

NextWindow == TimeWindowWaitIfNeeded

----------------------------------------------------------------------------
(* DataSynchronizer: the sync log file.                                    *)

SyncParked == last_sync = <<>> /\ sync_history = <<>> /\ syncOps = 0

HistoryLimit == 100
MaxSyncOps == 3
DataTypes == {"players", "teams"}
ErrorMessages == {"timeout"}
\* Timestamps a caller passes to update_last_sync.
ExplicitTimestamps == {1}

\* datetime.isoformat(): the string form of an instant.
IsoFormat(t) == <<"iso", t>>

\* sync_log["last_sync"][data_type] = value
DictSet(d, key, value) ==
    [k \in DOMAIN d \cup {key} |-> IF k = key THEN value ELSE d[k]]

\* sync_log["sync_history"][-100:] when the history is longer than 100
TrimHistory(history) ==
    IF Len(history) > HistoryLimit
    THEN SubSeq(history, Len(history) - HistoryLimit + 1, Len(history))
    ELSE history

SuccessEntry(data_type, timestamp) ==
    [type |-> data_type, timestamp |-> IsoFormat(timestamp), status |-> "success"]
\* A wrong variant of ErrorEntry, which C11 rules out.
ErrorEntryAsSuccess(data_type, timestamp, error_message) ==
    [type |-> data_type, timestamp |-> IsoFormat(timestamp), status |-> "success",
     message |-> error_message]
ErrorEntry(data_type, timestamp, error_message) ==
    [type |-> data_type, timestamp |-> IsoFormat(timestamp), status |-> "error",
     message |-> error_message]

\* _initialize_sync_log keeps a log file that exists: the log found at
\* construction is the one n earlier update_last_sync("players") calls, at the
\* instants 1..n, have written.
InitialLengths == {0, HistoryLimit - 1, HistoryLimit}
SyncInit ==
    /\ \E n \in InitialLengths :
         /\ sync_history = [i \in 1..n |-> SuccessEntry("players", i)]
         /\ last_sync = IF n = 0 THEN <<>>
                        ELSE DictSet(<<>>, "players", IsoFormat(n))
    /\ syncOps = 0

\* DataSynchronizer.update_last_sync: load, set last_sync, append, trim, save.
UpdateLastSync ==
    /\ syncOps < MaxSyncOps
    /\ \E data_type \in DataTypes, timestamp \in {now} \cup ExplicitTimestamps :
         /\ last_sync' = DictSet(last_sync, data_type, IsoFormat(timestamp))
         /\ sync_history' =
                TrimHistory(Append(sync_history, SuccessEntry(data_type, timestamp)))
    /\ syncOps' = syncOps + 1
    /\ now' = now + 1
    /\ UNCHANGED notSync

\* DataSynchronizer.record_sync_error: load, append, save.
RecordSyncErrorCall(data_type, error_message) ==
    /\ syncOps < MaxSyncOps
    /\ sync_history' = Append(sync_history, ErrorEntry(data_type, now, error_message))
    /\ syncOps' = syncOps + 1
    /\ now' = now + 1
    /\ UNCHANGED last_sync
    /\ UNCHANGED notSync

RecordSyncError ==
    \E data_type \in DataTypes, error_message \in ErrorMessages :
        RecordSyncErrorCall(data_type, error_message)

\* datetime.fromisoformat: the instant an ISO string stands for.
FromIsoFormat(s) == s[2]

\* What get_last_sync returns when nothing is recorded (None).
NoSync == 0 - 1

\* DataSynchronizer.get_last_sync on the log whose last-sync map is log.
GetLastSync(log, data_type) ==
    IF data_type \in DOMAIN log THEN FromIsoFormat(log[data_type]) ELSE NoSync

\* The categories callers ask get_last_sync about.
QueriedTypes == DataTypes \cup {"pitches"}

NextSync ==
    \/ UpdateLastSync
    \/ RecordSyncError

----------------------------------------------------------------------------
(* The schema catalog (schema.py) and the storage engine (local_storage.py). *)

\* SCHEMA_DEFINITIONS: the tables initialize_database creates.
Tables == {"players", "teams", "season_pitching_stats", "game_pitching_stats",
           "pitches", "pitching_mix_stats", "split_stats"}

\* The FOREIGN KEY clauses of SCHEMA_DEFINITIONS; every one references the
\* id column of its parent.
ForeignKeys ==
    {[table |-> "players",               column |-> "team_id",     ref |-> "teams"],
     [table |-> "season_pitching_stats", column |-> "player_id",   ref |-> "players"],
     [table |-> "season_pitching_stats", column |-> "team_id",     ref |-> "teams"],
     [table |-> "game_pitching_stats",   column |-> "player_id",   ref |-> "players"],
     [table |-> "game_pitching_stats",   column |-> "team_id",     ref |-> "teams"],
     [table |-> "game_pitching_stats",   column |-> "opponent_id", ref |-> "teams"],
     [table |-> "pitches",               column |-> "player_id",   ref |-> "players"],
     [table |-> "pitches",               column |-> "game_id",     ref |-> "games"],
     [table |-> "pitches",               column |-> "batter_id",   ref |-> "players"],
     [table |-> "pitching_mix_stats",    column |-> "player_id",   ref |-> "players"],
     [table |-> "split_stats",           column |-> "player_id",   ref |-> "players"]}

\* SQL NULL (a Python None parameter).
Null == -1

\* The columns of each table that the model keeps: the key, the required
\* fields, the foreign keys, one defaulted column and updated_at.
Columns(t) ==
    CASE t = "players" ->
           {"id", "full_name", "first_name", "last_name", "active", "team_id",
            "updated_at"}
      [] t = "teams" ->
           {"id", "name", "abbreviation", "team_code", "league_id", "division_id",
            "active", "updated_at"}
      [] t = "season_pitching_stats" ->
           {"player_id", "season", "team_id", "game_type", "updated_at"}
      [] t = "game_pitching_stats" ->
           {"player_id", "game_id", "game_date", "team_id", "opponent_id",
            "home_away", "game_type", "updated_at"}
      [] t = "pitches" ->
           {"id", "player_id", "game_id", "at_bat_id", "pitch_number", "pitch_type",
            "batter_id", "game_date", "updated_at"}
      [] t = "pitching_mix_stats" ->
           {"player_id", "season", "pitch_type", "updated_at"}
      [] t = "split_stats" ->
           {"player_id", "season", "split_type", "split_value", "updated_at"}

\* The ON CONFLICT target of each upsert statement (the table's primary key).
KeyColumns(t) ==
    CASE t = "players" -> {"id"}
      [] t = "teams" -> {"id"}
      [] t = "season_pitching_stats" -> {"player_id", "season", "team_id", "game_type"}
      [] t = "game_pitching_stats" -> {"player_id", "game_id"}
      [] t = "pitches" -> {"id"}
      [] t = "pitching_mix_stats" -> {"player_id", "season", "pitch_type"}
      [] t = "split_stats" -> {"player_id", "season", "split_type", "split_value"}

\* required_fields of each insert_* method, in the order they are checked.
RequiredFields(t) ==
    CASE t = "players" -> <<"id", "full_name", "first_name", "last_name">>
      [] t = "teams" ->
           <<"id", "name", "abbreviation", "team_code", "league_id", "division_id">>
      [] t = "season_pitching_stats" -> <<"player_id", "season", "team_id">>
      [] t = "game_pitching_stats" ->
           <<"player_id", "game_id", "game_date", "team_id", "opponent_id", "home_away">>
      [] t = "pitches" ->
           <<"id", "player_id", "game_id", "at_bat_id", "pitch_number", "pitch_type">>
      [] t = "pitching_mix_stats" -> <<"player_id", "season", "pitch_type">>
      [] t = "split_stats" -> <<"player_id", "season", "split_type", "split_value">>

\* The column list and the VALUES placeholders of each INSERT statement.
InsertColumnCount(t) ==
    CASE t = "players" -> 15
      [] t = "teams" -> 11
      [] t = "season_pitching_stats" -> 52
      [] t = "game_pitching_stats" -> 26
      [] t = "pitches" -> 40
      [] t = "pitching_mix_stats" -> 22
      [] t = "split_stats" -> 20
InsertPlaceholderCount(t) ==
    CASE t = "players" -> 15
      [] t = "teams" -> 11
      [] t = "season_pitching_stats" -> 51
      [] t = "game_pitching_stats" -> 26
      [] t = "pitches" -> 40
      [] t = "pitching_mix_stats" -> 22
      [] t = "split_stats" -> 20

\* The value params takes for a field the record lacks: the default written
\* into the record (updated_at, game_type) or given to .get().
ParamDefault(c) ==
    CASE c = "updated_at" -> "now"
      [] c = "game_type" -> "R"
      [] c = "active" -> TRUE
      [] c = "batter_id" -> 0
      [] OTHER -> Null

\* sqlite3's adaptation of a Python value to a column value.
AdaptValue(c, v) == IF c = "active" THEN (IF v THEN 1 ELSE 0) ELSE v

\* The row the params tuple of insert_* binds for record d.
Row(t, d) ==
    [c \in Columns(t) |->
        AdaptValue(c, IF c \in DOMAIN d THEN d[c] ELSE ParamDefault(c))]

Restrict(f, S) == [k \in S |-> f[k]]
Range(f) == {f[k] : k \in DOMAIN f}
KeyOf(t, row) == Restrict(row, KeyColumns(t))

EmptyDb == [t \in Tables |-> {}]

\* A row with the key of row is already in table t.
Conflicts(db, t, row) == \E r \in db[t] : KeyOf(t, r) = KeyOf(t, row)

\* A wrong variant of UpsertRow, which C5 rules out.
UpsertKeepsOld(db, t, row) ==
    IF \E r \in db[t] : KeyOf(t, r) = KeyOf(t, row)
    THEN db
    ELSE [db EXCEPT ![t] = @ \cup {row}]
\* INSERT ... ON CONFLICT(key) DO UPDATE SET every other column = excluded
UpsertRow(db, t, row) ==
    [db EXCEPT ![t] = {r \in @ : KeyOf(t, r) # KeyOf(t, row)} \cup {row}]

\* A wrong variant of ForeignKeysHold, which C30 rules out.
ForeignKeysUnchecked(db, t, row) == TRUE
\* The foreign keys of table t hold for row in db (enforcement is immediate).
ForeignKeysHold(db, t, row) ==
    \A fk \in ForeignKeys :
        fk.table = t =>
            \/ row[fk.column] = Null
            \/ \E parent \in db[fk.ref] : parent["id"] = row[fk.column]

\* No row of a child table references the row with this id of table t.
Unreferenced(db, tabs, t, id) ==
    \A fk \in ForeignKeys :
        (fk.ref = t /\ fk.table \in tabs) =>
            \A child \in db[fk.table] : child[fk.column] # id

\* sqlite3_prepare fails (sqlite3.OperationalError, before any implicit
\* BEGIN): bad SQL, a missing table, a VALUES list that does not match the
\* column list, or, with enforcement on, a child table whose parent table
\* does not exist.
PrepareFails(stmt, tabs, fk_on) ==
    \/ stmt.kind = "bad_sql"
    \/ stmt.kind # "bad_sql" /\ stmt.table \notin tabs
    \/ stmt.kind = "upsert" /\ InsertColumnCount(stmt.table) # InsertPlaceholderCount(stmt.table)
    \/ /\ stmt.kind \in {"upsert", "insert", "bad_param"}
       /\ fk_on
       /\ \E fk \in ForeignKeys : fk.table = stmt.table /\ fk.ref \notin tabs

\* INSERT, UPDATE, DELETE and REPLACE statements make sqlite3 open a
\* transaction implicitly.
IsDml(stmt) == stmt.kind \in {"upsert", "insert", "delete", "bad_param"}

\* cursor.execute(stmt) on the connection's view db: the exception class it
\* raises ("none": it succeeds), the view afterwards, and whether the
\* statement got as far as the implicit BEGIN.
Exec(stmt, db, tabs, fk_on) ==
    IF PrepareFails(stmt, tabs, fk_on)
    THEN [raised |-> "sqlite3.Error", db |-> db, began |-> FALSE]
    ELSE CASE stmt.kind = "select" ->
                [raised |-> "none", db |-> db, began |-> FALSE]
           [] stmt.kind = "bad_param" ->
                \* a Python int too large for an SQLite INTEGER
                [raised |-> "OverflowError", db |-> db, began |-> TRUE]
           [] stmt.kind = "upsert" ->
                IF fk_on /\ ~ForeignKeysHold(db, stmt.table, stmt.row)
                THEN [raised |-> "sqlite3.Error", db |-> db, began |-> TRUE]
                ELSE [raised |-> "none", db |-> UpsertRow(db, stmt.table, stmt.row),
                      began |-> TRUE]
           [] stmt.kind = "insert" ->
                IF \/ Conflicts(db, stmt.table, stmt.row)
                   \/ fk_on /\ ~ForeignKeysHold(db, stmt.table, stmt.row)
                THEN [raised |-> "sqlite3.Error", db |-> db, began |-> TRUE]
                ELSE [raised |-> "none",
                      db |-> [db EXCEPT ![stmt.table] = @ \cup {stmt.row}],
                      began |-> TRUE]
           [] stmt.kind = "delete" ->
                IF fk_on /\ ~Unreferenced(db, tabs, stmt.table, stmt.id)
                THEN [raised |-> "sqlite3.Error", db |-> db, began |-> TRUE]
                ELSE [raised |-> "none",
                      db |-> [db EXCEPT ![stmt.table] = {r \in @ : r["id"] # stmt.id}],
                      began |-> TRUE]

StorageParked ==
    /\ connection = "closed" /\ connects = 0 /\ foreign_keys = FALSE /\ tables = {}
    /\ committed = EmptyDb /\ working = EmptyDb /\ in_transaction = FALSE
    /\ calls = 0
    /\ lastCall = [op |-> "none", args |-> <<>>]
    /\ conflict = FALSE
    /\ result = [raised |-> "none", value |-> "none"]
    /\ executed = 0 /\ lastQuery = <<>>

MaxCalls == 3

\* A caller enters a storage method.
Called(op, args) ==
    /\ calls < MaxCalls
    /\ calls' = calls + 1
    /\ lastCall' = [op |-> op, args |-> args]

\* A wrong variant of ConnectsAfter, which C28 rules out.
ConnectsAfterAlways(conn, n) == n + 1
\* if self.connection is None: self.connection = sqlite3.connect(...)
ConnectsAfter(conn, n) == IF conn = "closed" THEN n + 1 ELSE n

\* LocalStorage.connect: open the connection if there is none, with
\* PRAGMA foreign_keys = ON.
Connect ==
    /\ connection' = "open"
    /\ connects' = ConnectsAfter(connection, connects)
    /\ foreign_keys' = TRUE

\* LocalStorage.close: the connection goes, and with it what was not committed.
Close ==
    /\ connection' = "closed"
    /\ foreign_keys' = FALSE
    /\ working' = committed
    /\ in_transaction' = FALSE
    /\ Called("close", <<>>)
    /\ conflict' = FALSE
    /\ result' = [raised |-> "none", value |-> "none"]
    /\ executed' = 0
    /\ lastQuery' = <<>>
    /\ UNCHANGED <<tables, committed, connects>>
    /\ UNCHANGED notStorage

\* LocalStorage.initialize_database: CREATE TABLE IF NOT EXISTS for every
\* table of the catalog, the indexes, conn.commit().
InitializeDatabase ==
    /\ Connect
    /\ tables' = Tables
    /\ committed' = working
    /\ in_transaction' = FALSE
    /\ Called("initialize_database", <<>>)
    /\ conflict' = FALSE
    /\ result' = [raised |-> "none", value |-> "True"]
    /\ executed' = Cardinality(Tables)
    /\ lastQuery' = <<>>
    /\ UNCHANGED working
    /\ UNCHANGED notStorage

\* The insert_* method of each table.
InsertMethod(t) ==
    CASE t = "players" -> "insert_player"
      [] t = "teams" -> "insert_team"
      [] t = "season_pitching_stats" -> "insert_season_pitching_stats"
      [] t = "game_pitching_stats" -> "insert_game_pitching_stats"
      [] t = "pitches" -> "insert_pitch"
      [] t = "pitching_mix_stats" -> "insert_pitching_mix_stats"
      [] t = "split_stats" -> "insert_split_stats"

\* The first field of required that record d lacks (<<>>: none).
FirstMissing(required, d) ==
    SelectSeq(required, LAMBDA field : field \notin DOMAIN d)

\* The body shared by the seven insert_* methods: validate, default
\* updated_at, execute the upsert, commit; on any exception roll back and
\* re-raise.
Upsert(t, d) ==
    LET missing == FirstMissing(RequiredFields(t), d)
        res     == Exec([kind |-> "upsert", table |-> t, row |-> Row(t, d)],
                        working, tables, TRUE)
    IN  /\ Connect
        /\ Called(InsertMethod(t), d)
        /\ conflict' = (missing = <<>> /\ res.raised = "none"
                         /\ Conflicts(working, t, Row(t, d)))
        /\ IF missing # <<>>
           THEN /\ result' = [raised |-> "ValueError", value |-> missing[1]]
                /\ executed' = 0
                /\ working' = committed
                /\ UNCHANGED committed
           ELSE /\ executed' = 1
                /\ IF res.raised = "none"
                   THEN /\ working' = res.db
                        /\ committed' = res.db
                        /\ result' = [raised |-> "none", value |-> "rowcount"]
                   ELSE /\ working' = committed
                        /\ UNCHANGED committed
                        /\ result' = [raised |-> res.raised, value |-> "none"]
        /\ in_transaction' = FALSE
        /\ lastQuery' = <<>>
        /\ UNCHANGED tables
        /\ UNCHANGED notStorage

\* The records the callers pass: complete ones, ones with optional fields,
\* and ones lacking required fields.
With(d, k, v) == [x \in DOMAIN d \cup {k} |-> IF x = k THEN v ELSE d[x]]
Without(d, k) == Restrict(d, DOMAIN d \ {k})

PlayerRecord(i, n) ==
    [id |-> i, full_name |-> n, first_name |-> "f", last_name |-> "l"]
PlayerInputs ==
    LET plain == {PlayerRecord(1, "B"), PlayerRecord(2, "A")}
        dated == {With(PlayerRecord(1, "A"), "updated_at", "t1"),
                  With(PlayerRecord(1, "A"), "updated_at", "t2")}
        teamed == {With(PlayerRecord(1, "A"), "team_id", 1),
                   With(PlayerRecord(2, "A"), "team_id", 2)}
        lacking == {Without(PlayerRecord(1, "A"), "full_name"),
                    Without(With(PlayerRecord(1, "A"), "updated_at", "t2"), "id"),
                    Restrict(PlayerRecord(2, "A"), {"id", "full_name"})}
    IN  plain \cup dated \cup teamed \cup lacking

TeamRecord ==
    [id |-> 1, name |-> "T", abbreviation |-> "TT", team_code |-> "t",
     league_id |-> 103, division_id |-> 201]
TeamInputs ==
    {TeamRecord, With(TeamRecord, "updated_at", "t1"),
     Without(TeamRecord, "name"), Restrict(TeamRecord, {"id", "name"})}

SeasonRecord == [player_id |-> 1, season |-> 2023, team_id |-> 1]
SeasonInputs == {SeasonRecord, Without(SeasonRecord, "season")}

GameRecord ==
    [player_id |-> 1, game_id |-> "g1", game_date |-> "d1", team_id |-> 1,
     opponent_id |-> 1, home_away |-> "H"]
GameInputs ==
    {GameRecord, With(GameRecord, "opponent_id", 2), Without(GameRecord, "game_date")}

PitchRecord ==
    [id |-> "p1", player_id |-> 1, game_id |-> "g1", at_bat_id |-> 1,
     pitch_number |-> 1, pitch_type |-> "FF"]
PitchInputs ==
    {PitchRecord, With(With(PitchRecord, "batter_id", 1), "game_date", "d1"),
     Without(PitchRecord, "pitch_type")}

MixRecord == [player_id |-> 1, season |-> 2023, pitch_type |-> "FF"]
MixInputs == {MixRecord, With(MixRecord, "player_id", 2), Without(MixRecord, "season")}

SplitRecord ==
    [player_id |-> 1, season |-> 2023, split_type |-> "vs_left", split_value |-> "L"]
SplitInputs == {SplitRecord, Without(SplitRecord, "split_value")}

InsertPlayer == \E d \in PlayerInputs : Upsert("players", d)
InsertTeam == \E d \in TeamInputs : Upsert("teams", d)
InsertSeasonPitchingStats ==
    \E d \in SeasonInputs : Upsert("season_pitching_stats", d)
InsertGamePitchingStats ==
    \E d \in GameInputs : Upsert("game_pitching_stats", d)
InsertPitch == \E d \in PitchInputs : Upsert("pitches", d)
InsertPitchingMixStats ==
    \E d \in MixInputs : Upsert("pitching_mix_stats", d)
InsertSplitStats == \E d \in SplitInputs : Upsert("split_stats", d)

\* The statements callers hand to execute_query and execute_transaction.
SqlStatements ==
    <<[kind |-> "select", table |-> "players"],
      [kind |-> "insert", table |-> "teams",
       row |-> Row("teams", With(With(TeamRecord, "id", 2), "updated_at", "t1"))],
      [kind |-> "delete", table |-> "players", id |-> 1],
      [kind |-> "bad_param", table |-> "teams"]>>

\* LocalStorage.execute_query: one statement on the shared connection, no
\* commit and no rollback; an exception propagates.
ExecuteQuery ==
    \E i \in DOMAIN SqlStatements :
        LET stmt == SqlStatements[i]
            res  == Exec(stmt, working, tables, TRUE)
        IN  /\ Connect
            /\ Called("execute_query", i)
            /\ conflict' = FALSE
            /\ executed' = 1
            /\ working' = res.db
            /\ in_transaction' = (in_transaction \/ (IsDml(stmt) /\ res.began))
            /\ result' = [raised |-> res.raised,
                          value |-> IF res.raised = "none" THEN "rows" ELSE "none"]
            /\ lastQuery' = <<>>
            /\ UNCHANGED <<tables, committed>>
            /\ UNCHANGED notStorage

MaxStatements == 2

\* The statements callers batch into transactions: the writing ones.
WriteStatements == {i \in DOMAIN SqlStatements : IsDml(SqlStatements[i])}

\* The for loop of execute_transaction from statement k on: the exception
\* class that ends it ("none": the loop completes), the view then, and the
\* number of statements executed.
RECURSIVE RunStatements(_, _, _, _)
RunStatements(idxs, k, db, tabs) ==
    IF k > Len(idxs)
    THEN [raised |-> "none", db |-> db, count |-> k - 1]
    ELSE LET res == Exec(SqlStatements[idxs[k]], db, tabs, TRUE)
         IN  IF res.raised # "none"
             THEN [raised |-> res.raised, db |-> res.db, count |-> k]
             ELSE RunStatements(idxs, k + 1, res.db, tabs)

\* LocalStorage.execute_transaction: BEGIN TRANSACTION, the statements,
\* commit; sqlite3.Error is answered by rollback and False, any other
\* exception propagates.
ExecuteTransaction ==
    \E n \in 0..MaxStatements : \E idxs \in [1..n -> WriteStatements] :
        LET run == RunStatements(idxs, 1, working, tables)
        IN  /\ Connect
            /\ Called("execute_transaction", idxs)
            /\ conflict' = FALSE
            /\ lastQuery' = <<>>
            /\ IF in_transaction
               THEN \* BEGIN inside a transaction: sqlite3.OperationalError
                    /\ executed' = 1
                    /\ working' = committed
                    /\ in_transaction' = FALSE
                    /\ result' = [raised |-> "none", value |-> "False"]
                    /\ UNCHANGED committed
               ELSE /\ executed' = 1 + run.count
                    /\ CASE run.raised = "none" ->
                              /\ working' = run.db
                              /\ committed' = run.db
                              /\ in_transaction' = FALSE
                              /\ result' = [raised |-> "none", value |-> "True"]
                         [] run.raised = "sqlite3.Error" ->
                              /\ working' = committed
                              /\ in_transaction' = FALSE
                              /\ result' = [raised |-> "none", value |-> "False"]
                              /\ UNCHANGED committed
                         [] OTHER ->
                              /\ working' = run.db
                              /\ in_transaction' = TRUE
                              /\ result' = [raised |-> run.raised, value |-> "none"]
                              /\ UNCHANGED committed
            /\ UNCHANGED tables
            /\ UNCHANGED notStorage

\* valid_stats and valid_orders of get_top_pitchers.
ValidStats ==
    {"era", "whip", "wins", "losses", "saves", "strike_outs", "base_on_balls",
     "innings_pitched", "home_runs", "hits"}
ValidOrders == {"ASC", "DESC"}
StatInputs == {"era", "strike_outs", "batting_average"}
OrderInputs == {"ASC", "DESC", "desc"}

\* A wrong variant of EffectiveOrder, which C9 rules out.
EffectiveOrderAsGiven(order) == order
\* The order get_top_pitchers puts into ORDER BY.
EffectiveOrder(order) == IF order \notin ValidOrders THEN "ASC" ELSE order

\* LocalStorage.get_top_pitchers: validate stat, normalise order, run the
\* SELECT ... ORDER BY s.<stat> <order> through execute_query.
GetTopPitchersCall(stat, order) ==
        LET res == Exec([kind |-> "select", table |-> "season_pitching_stats"],
                        working, tables, TRUE)
        IN  /\ Called("get_top_pitchers", <<stat, order>>)
            /\ conflict' = FALSE
            /\ IF stat \notin ValidStats
               THEN /\ result' = [raised |-> "ValueError", value |-> stat]
                    /\ executed' = 0
                    /\ lastQuery' = <<>>
                    /\ UNCHANGED <<connection, connects, foreign_keys>>
               ELSE /\ Connect
                    /\ executed' = 1
                    /\ lastQuery' = <<stat, EffectiveOrder(order)>>
                    /\ result' = [raised |-> res.raised,
                                  value |-> IF res.raised = "none" THEN "rows" ELSE "none"]
            /\ UNCHANGED <<tables, committed, working, in_transaction>>
            /\ UNCHANGED notStorage
GetTopPitchers ==
    \E stat \in StatInputs, order \in OrderInputs : GetTopPitchersCall(stat, order)

\* LocalStorage.__init__: no connection yet; the database file is new, or
\* is the one an earlier session initialised and left a team and a player in.
SeededDb ==
    [EmptyDb EXCEPT !["teams"] = {Row("teams", TeamRecord)},
                    !["players"] = {Row("players", With(PlayerRecord(1, "A"), "team_id", 1))}]
StorageInit ==
    /\ connection = "closed" /\ connects = 0 /\ foreign_keys = FALSE
    /\ \/ tables = {} /\ committed = EmptyDb
       \/ tables = Tables /\ committed = SeededDb
    /\ working = committed /\ in_transaction = FALSE
    /\ calls = 0
    /\ lastCall = [op |-> "none", args |-> <<>>]
    /\ conflict = FALSE
    /\ result = [raised |-> "none", value |-> "none"]
    /\ executed = 0 /\ lastQuery = <<>>

NextStorage ==
    \/ Close
    \/ InitializeDatabase
    \/ InsertPlayer
    \/ InsertTeam
    \/ InsertSeasonPitchingStats
    \/ InsertGamePitchingStats
    \/ InsertPitch
    \/ InsertPitchingMixStats
    \/ InsertSplitStats
    \/ ExecuteQuery
    \/ ExecuteTransaction
    \/ GetTopPitchers

----------------------------------------------------------------------------
(* DataSynchronizer.merge_data and detect_changes (sync.py:218-320).       *)

NoChanges == [added |-> {}, updated |-> {}, removed |-> {}]

DataParked ==
    /\ source_data = <<>> /\ target_data = <<>> /\ dataOp = "none"
    /\ merged_data = <<>> /\ changes = NoChanges

\* key_field
KeyField == "id"

\* The records callers pass: two versions of record 1 that differ in
\* updated_at only, a record 2, a version of record 1 with other content and
\* the older timestamp, one without updated_at, and one without the key.
DataRecords ==
    {[id |-> 1, updated_at |-> 1],
     [id |-> 1, updated_at |-> 2],
     [id |-> 2, updated_at |-> 1],
     [id |-> 1, name |-> "b", updated_at |-> 1],
     [id |-> 1, name |-> "b"],
     [name |-> "b", updated_at |-> 1]}

MaxRecords == 2
DataLists == UNION {[1..n -> DataRecords] : n \in 0..MaxRecords}

DataInit ==
    /\ source_data \in DataLists /\ target_data \in DataLists
    /\ dataOp = "none" /\ merged_data = <<>> /\ changes = NoChanges

\* {item[key_field] for item in data if key_field in item}
Keys(data) == {data[i][KeyField] : i \in {j \in DOMAIN data : KeyField \in DOMAIN data[j]}}

\* A wrong variant of BuildIndex, which C14 rules out.
BuildIndexFirst(data) ==
    [k \in Keys(data) |->
        LET at == {i \in DOMAIN data : KeyField \in DOMAIN data[i] /\ data[i][KeyField] = k}
        IN  data[CHOOSE i \in at : \A j \in at : i <= j]]
\* {item[key_field]: item for item in data if key_field in item}: of the
\* items with one key the last stays.
BuildIndex(data) ==
    [k \in Keys(data) |->
        LET at == {i \in DOMAIN data : KeyField \in DOMAIN data[i] /\ data[i][KeyField] = k}
        IN  data[CHOOSE i \in at : \A j \in at : j <= i]]

\* list.index(item): the position of the first element equal to item.
ListIndex(list, item) ==
    CHOOSE i \in DOMAIN list : list[i] = item /\ \A j \in 1..(i - 1) : list[j] # item

\* A wrong variant of SourceWins, which C12 rules out.
SourceWinsOnTie(source_item, target_item) ==
    \/ /\ "updated_at" \in DOMAIN source_item /\ "updated_at" \in DOMAIN target_item
       /\ source_item["updated_at"] >= target_item["updated_at"]
    \/ "updated_at" \notin DOMAIN target_item
\* The two branches of merge_data that replace the target item by the source
\* item.
SourceWins(source_item, target_item) ==
    \/ /\ "updated_at" \in DOMAIN source_item /\ "updated_at" \in DOMAIN target_item
       /\ source_item["updated_at"] > target_item["updated_at"]
    \/ "updated_at" \notin DOMAIN target_item

\* The for loop of merge_data from source item i on.
RECURSIVE MergeLoop(_, _, _, _)
MergeLoop(source, i, target_index, merged) ==
    IF i > Len(source) THEN merged
    ELSE LET source_item == source[i]
         IN  IF KeyField \notin DOMAIN source_item
             THEN MergeLoop(source, i + 1, target_index, merged)
             ELSE LET key == source_item[KeyField]
                  IN  IF key \in DOMAIN target_index
                      THEN IF SourceWins(source_item, target_index[key])
                           THEN MergeLoop(source, i + 1,
                                    DictSet(target_index, key, source_item),
                                    [merged EXCEPT ![ListIndex(merged, target_index[key])]
                                                        = source_item])
                           ELSE MergeLoop(source, i + 1, target_index, merged)
                      ELSE MergeLoop(source, i + 1,
                               DictSet(target_index, key, source_item),
                               Append(merged, source_item))

\* DataSynchronizer.merge_data(source_data, target_data, key_field)
MergeData ==
    /\ dataOp = "none"
    /\ dataOp' = "merge_data"
    /\ merged_data' = MergeLoop(source_data, 1, BuildIndex(target_data), target_data)
    /\ UNCHANGED <<source_data, target_data, changes>>
    /\ UNCHANGED notData

\* The keys of a record in sorted order, as json.dumps(sort_keys=True) writes
\* them.
SortedFields == <<"id", "name", "updated_at">>

\* json.dumps(item, sort_keys=True): the key-value pairs in key order.
JsonDumps(item) ==
    LET present == SelectSeq(SortedFields, LAMBDA f : f \in DOMAIN item)
    IN  [i \in DOMAIN present |-> <<present[i], item[present[i]]>>]

\* The test detect_changes applies to a key found in both lists.
IsUpdated(old_item, new_item) ==
    \/ /\ "updated_at" \in DOMAIN new_item /\ "updated_at" \in DOMAIN old_item
       /\ new_item["updated_at"] > old_item["updated_at"]
    \/ JsonDumps(old_item) # JsonDumps(new_item)

\* DataSynchronizer.detect_changes(old_data, new_data, key_field), with
\* old_data = target_data and new_data = source_data.
DetectChanges ==
    LET old_keys == Keys(target_data)
        new_keys == Keys(source_data)
        old_index == BuildIndex(target_data)
        new_index == BuildIndex(source_data)
    IN  /\ dataOp = "none"
        /\ dataOp' = "detect_changes"
        /\ changes' =
             [added |-> {new_index[k] : k \in new_keys \ old_keys},
              updated |-> {new_index[k] :
                              k \in {q \in old_keys \cap new_keys :
                                        IsUpdated(old_index[q], new_index[q])}},
              removed |-> {old_index[k] : k \in old_keys \ new_keys}]
        /\ UNCHANGED <<source_data, target_data, merged_data>>
        /\ UNCHANGED notData

NextData ==
    \/ MergeData
    \/ DetectChanges

----------------------------------------------------------------------------
(* DataBackup (sync.py:323-670) over the files of the data directory.      *)

ClockPerSecond == 2
SecondsPerDay == 86400
ClockPerDay == SecondsPerDay * ClockPerSecond

\* self.backup_interval_days (the default) and self.max_backups
backup_interval_days == 7
max_backups == 10

\* datetime.now().strftime("%Y%m%d_%H%M%S"): the clock to the second.
Strftime(t) == t \div ClockPerSecond

\* (later - earlier).days
ElapsedDays(earlier, later) == (later - earlier) \div ClockPerDay

\* What the database file holds.
LiveContent == [tables |-> tables, rows |-> committed]
InitializedContent == [tables |-> Tables, rows |-> EmptyDb]

NoOperation == [op |-> "none", path |-> 0, flag |-> FALSE]

BackupParked ==
    /\ wall = 0 /\ db_exists = FALSE /\ db_mtime = 0
    /\ backups = <<>> /\ zips = <<>> /\ pre_restores = <<>>
    /\ data_dirs = [processed |-> "absent", raw |-> "absent"]
    /\ bpc = "idle" /\ bop = NoOperation /\ bresult = "none" /\ backupOps = 0

\* The clock when DataBackup is constructed: a month after the epoch of the
\* model.
StartClock == 30 * ClockPerDay

\* The snapshots found in the backup directory: none, or the twelve of
\* the spec's example; snapshot i is named by its second i, pairs of them
\* share a modification time.
InitialSnapshots == {0, 12}
Snapshot(i) ==
    [mtime |-> ((i + 1) \div 2) * ClockPerSecond,
     made |-> ((i + 1) \div 2) * ClockPerSecond,
     content |-> InitializedContent]

\* A path no file has.
MissingPath == 0

MaxBackupOps == 2

\* Time that passes before an operation starts: none, the least, a week.
ClockGaps == {0, 1, backup_interval_days * ClockPerDay}

\* The operation is entered, gap after the one before.
Entered(op, path, flag, gap) ==
    /\ bpc = "idle"
    /\ backupOps < MaxBackupOps
    /\ backupOps' = backupOps + 1
    /\ wall' = wall + gap
    /\ bop' = [op |-> op, path |-> path, flag |-> flag]

\* The operation returns value.
Returned(value) == bpc' = "idle" /\ bresult' = value

\* A wrong variant of ConnectionAfterClose, which C18 rules out.
ConnectionAfterCloseKept(conn) == conn
\* LocalStorage.close: self.connection = None
ConnectionAfterClose(conn) == "closed"

\* local_storage.close(), called by every backup and restore operation.
BackupCloseConnection ==
    /\ bpc = "close"
    /\ bpc' = "copy"
    /\ connection' = ConnectionAfterClose(connection)
    /\ foreign_keys' = FALSE
    /\ working' = committed
    /\ in_transaction' = FALSE
    /\ UNCHANGED <<tables, committed, connects, calls, lastCall, conflict, result,
                   executed, lastQuery>>
    /\ UNCHANGED <<wall, db_exists, db_mtime, backups, zips, pre_restores, data_dirs,
                   bop, bresult, backupOps>>
    /\ UNCHANGED notBackup

\* max(backups, key=st_mtime): the modification time of the newest snapshot.
LastBackupTime(files) ==
    LET newest == CHOOSE f \in DOMAIN files :
                      \A g \in DOMAIN files : files[g].mtime <= files[f].mtime
    IN  files[newest].mtime

\* A wrong variant of KeepChoices, which C16 rules out.
KeepChoicesByName(files) ==
    {K \in SUBSET DOMAIN files :
        /\ Cardinality(K) = max_backups
        /\ \A k \in K, d \in DOMAIN files \ K : k <= d}
\* backups.sort(key=st_mtime); backups[-max_backups:]: the files that stay,
\* the newest max_backups by modification time; among equal times the order
\* of glob decides.
KeepChoices(files) ==
    {K \in SUBSET DOMAIN files :
        /\ Cardinality(K) = max_backups
        /\ \A k \in K, d \in DOMAIN files \ K : files[d].mtime <= files[k].mtime}

\* DataBackup._rotate_backups: the directory contents it may leave.
Rotate(files) ==
    IF Cardinality(DOMAIN files) > max_backups
    THEN {Restrict(files, K) : K \in KeepChoices(files)}
    ELSE {files}

\* A wrong variant of RotationPattern, which C27 rules out.
RotationPatternDefault(op) == "*.sqlite"
\* The pattern the operation hands to _rotate_backups: create_zip_backup
\* passes "*.zip", create_database_backup leaves the default.
RotationPattern(op) == IF op = "create_zip_backup" THEN "*.zip" ELSE "*.sqlite"

\* _rotate_backups(pattern) on the backup directory: only the files that
\* match the pattern are counted and deleted.
RotateDirectory(pattern, dir) ==
    IF pattern = "*.zip"
    THEN {[dir EXCEPT !.zip = kept] : kept \in Rotate(dir.zip)}
    ELSE {[dir EXCEPT !.sqlite = kept] : kept \in Rotate(dir.sqlite)}

\* The files an operation leaves alone unless it says otherwise.
StorageUntouched == UNCHANGED storageVars
DatabaseUntouched == UNCHANGED <<db_exists, db_mtime>>

\* DataBackup.create_database_backup up to local_storage.close(): skipped when
\* the newest snapshot's modification time is less than the interval back, or
\* when there is no database file.
CreateDatabaseBackupBegin ==
    \E gap \in ClockGaps :
        /\ Entered("create_database_backup", Strftime(wall + gap), FALSE, gap)
        /\ IF /\ DOMAIN backups # {}
              /\ ElapsedDays(LastBackupTime(backups), wall + gap) < backup_interval_days
           THEN Returned("None")
           ELSE IF ~db_exists
           THEN Returned("None")
           ELSE bpc' = "close" /\ UNCHANGED bresult
        /\ StorageUntouched /\ DatabaseUntouched
        /\ UNCHANGED <<backups, zips, pre_restores, data_dirs>>
        /\ UNCHANGED notBackup

\* shutil.copy2(db_path, backup_path), which keeps the modification time of
\* the database file, then _rotate_backups().
CreateDatabaseBackupCopy ==
    /\ bpc = "copy" /\ bop.op = "create_database_backup"
    /\ \E dir \in RotateDirectory(RotationPattern(bop.op),
                   [sqlite |-> DictSet(backups, bop.path,
                                  [mtime |-> db_mtime, made |-> wall,
                                   content |-> LiveContent]),
                    zip |-> zips]) :
           backups' = dir.sqlite /\ zips' = dir.zip
    /\ Returned("path")
    /\ StorageUntouched /\ DatabaseUntouched
    /\ UNCHANGED <<wall, pre_restores, data_dirs, bop, backupOps>>
    /\ UNCHANGED notBackup

\* DataBackup.create_zip_backup up to local_storage.close().
CreateZipBackupBegin ==
    \E gap \in ClockGaps, include_raw_data \in BOOLEAN :
        /\ Entered("create_zip_backup", Strftime(wall + gap), include_raw_data, gap)
        /\ bpc' = "close" /\ UNCHANGED bresult
        /\ StorageUntouched /\ DatabaseUntouched
        /\ UNCHANGED <<backups, zips, pre_restores, data_dirs>>
        /\ UNCHANGED notBackup

\* What the archive takes: the database file if there is one, the processed
\* data, and the raw data when asked.
ZipContent(include_raw_data) ==
    [has_db |-> db_exists,
     db |-> LiveContent,
     processed |-> data_dirs.processed,
     raw |-> IF include_raw_data THEN data_dirs.raw ELSE "absent"]

\* The archive is written, then _rotate_backups(pattern="*.zip").
CreateZipBackupWrite ==
    /\ bpc = "copy" /\ bop.op = "create_zip_backup"
    /\ \E dir \in RotateDirectory(RotationPattern(bop.op),
                   [sqlite |-> backups,
                    zip |-> DictSet(zips, bop.path,
                               [mtime |-> wall, made |-> wall,
                                content |-> ZipContent(bop.flag)])]) :
           backups' = dir.sqlite /\ zips' = dir.zip
    /\ Returned("path")
    /\ StorageUntouched /\ DatabaseUntouched
    /\ UNCHANGED <<wall, pre_restores, data_dirs, bop, backupOps>>
    /\ UNCHANGED notBackup

\* A wrong variant of PathExists, which C19 rules out.
PathExistsAlways(files, path) == TRUE
\* backup_path.exists()
PathExists(files, path) == path \in DOMAIN files

\* The paths a restore is asked for: the last file of the directory, and
\* one that is not there.
RestorePaths(files) ==
    {MissingPath} \cup {f \in DOMAIN files : \A g \in DOMAIN files : g <= f}

\* DataBackup.restore_database up to local_storage.close(): a missing backup
\* ends it.
RestoreDatabaseBegin ==
    \E gap \in ClockGaps, backup_path \in RestorePaths(backups) :
        /\ Entered("restore_database", backup_path, FALSE, gap)
        /\ IF ~PathExists(backups, backup_path)
           THEN Returned("False")
           ELSE bpc' = "close" /\ UNCHANGED bresult
        /\ StorageUntouched /\ DatabaseUntouched
        /\ UNCHANGED <<backups, zips, pre_restores, data_dirs>>
        /\ UNCHANGED notBackup

\* shutil.copy2(db_path, "<db_path.name>.pre_restore_<stamp>") when
\* the database file exists: the copy is named by the second.
PreRestore ==
    IF db_exists THEN DictSet(pre_restores, Strftime(wall), LiveContent)
                 ELSE pre_restores

\* The database file is replaced by one holding content.
DatabaseBecomes(content, mtime) ==
    /\ db_exists' = TRUE
    /\ db_mtime' = mtime
    /\ tables' = content.tables
    /\ committed' = content.rows
    /\ working' = IF connection = "closed" THEN content.rows ELSE working
    /\ UNCHANGED <<connection, connects, foreign_keys, in_transaction, calls, lastCall,
                   conflict, result, executed, lastQuery>>

\* The pre-restore copy, then shutil.copy2(backup_path, db_path); a source
\* that is not there raises, which returns False.
RestoreDatabaseCopy ==
    /\ bpc = "copy" /\ bop.op = "restore_database"
    /\ pre_restores' = PreRestore
    /\ IF bop.path \in DOMAIN backups
       THEN /\ DatabaseBecomes(backups[bop.path].content, backups[bop.path].mtime)
            /\ Returned("True")
       ELSE /\ StorageUntouched /\ DatabaseUntouched
            /\ Returned("False")
    /\ UNCHANGED <<wall, backups, zips, data_dirs, bop, backupOps>>
    /\ UNCHANGED notBackup

\* DataBackup.restore_from_zip up to local_storage.close().
RestoreFromZipBegin ==
    \E gap \in ClockGaps, backup_path \in RestorePaths(zips), restore_raw_data \in BOOLEAN :
        /\ Entered("restore_from_zip", backup_path, restore_raw_data, gap)
        /\ IF ~PathExists(zips, backup_path)
           THEN Returned("False")
           ELSE bpc' = "close" /\ UNCHANGED bresult
        /\ StorageUntouched /\ DatabaseUntouched
        /\ UNCHANGED <<backups, zips, pre_restores, data_dirs>>
        /\ UNCHANGED notBackup

\* The directories after the archive's processed data, and its raw data when
\* asked, replaced the ones in place.
RestoredDirs(archive, restore_raw_data) ==
    [processed |-> IF archive.processed # "absent" THEN archive.processed
                   ELSE data_dirs.processed,
     raw |-> IF restore_raw_data /\ archive.raw # "absent" THEN archive.raw
             ELSE data_dirs.raw]

\* The pre-restore copy, the extraction, and the copies into place; the
\* extracted database file carries the time of its extraction.
RestoreFromZipExtract ==
    /\ bpc = "copy" /\ bop.op = "restore_from_zip"
    /\ pre_restores' = PreRestore
    /\ IF bop.path \in DOMAIN zips
       THEN LET archive == zips[bop.path].content
            IN  /\ IF archive.has_db
                   THEN DatabaseBecomes(archive.db, wall)
                   ELSE StorageUntouched /\ DatabaseUntouched
                /\ data_dirs' = RestoredDirs(archive, bop.flag)
                /\ Returned("True")
       ELSE /\ StorageUntouched /\ DatabaseUntouched
            /\ UNCHANGED data_dirs
            /\ Returned("False")
    /\ UNCHANGED <<wall, backups, zips, bop, backupOps>>
    /\ UNCHANGED notBackup

\* Between two backup operations the program queries the database, which
\* opens the connection again.
StorageUse ==
    /\ bpc = "idle" /\ db_exists /\ connection = "closed"
    /\ GetTopPitchersCall("era", "ASC")

\* The directory as DataBackup finds it: a database file or none yet, last
\* written long ago or just now; earlier snapshots and as many earlier archives as are kept.
BackupInit ==
    /\ wall = StartClock
    /\ db_exists \in BOOLEAN
    /\ db_mtime \in {0, StartClock - 1}
    /\ \E n \in InitialSnapshots : backups = [i \in 1..n |-> Snapshot(i)]
    /\ zips = [i \in 1..max_backups |->
                  [mtime |-> i * ClockPerSecond, made |-> i * ClockPerSecond,
                   content |-> [has_db |-> TRUE, db |-> InitializedContent,
                                processed |-> "p1", raw |-> "r1"]]]
    /\ pre_restores = <<>>
    /\ data_dirs = [processed |-> "p0", raw |-> "r0"]
    /\ bpc = "idle" /\ bop = NoOperation /\ bresult = "none" /\ backupOps = 0

NextBackup ==
    \/ CreateDatabaseBackupBegin
    \/ CreateZipBackupBegin
    \/ RestoreDatabaseBegin
    \/ RestoreFromZipBegin
    \/ BackupCloseConnection
    \/ CreateDatabaseBackupCopy
    \/ CreateZipBackupWrite
    \/ RestoreDatabaseCopy
    \/ RestoreFromZipExtract
    \/ StorageUse

----------------------------------------------------------------------------
(* TokenManager (authentication.py:38-149).                                *)

\* None, as the value of token_data; as the result of a dict lookup; and as
\* the JSON null of the cache's token_expiry.
TokenNone == [none |-> "None"]
NoValue == "None"
JsonNull == <<"null", 0>>
\* None, as the value of token_expiry.
NoExpiry == 0 - 1

\* timedelta(minutes=10)
MarginMinutes == 10

\* d.get(key)
DictGet(d, key) == IF key \in DOMAIN d THEN d[key] ELSE NoValue

\* The dict with the keys of S taken from d.
Pick(d, S) == [k \in S |-> d[k]]

\* The token data a token endpoint hands out, whole and in part, and the
\* empty dict.
FullToken == [access_token |-> "a1", refresh_token |-> "r1"]
TokenDicts == {Pick(FullToken, S) : S \in SUBSET DOMAIN FullToken}

\* The expiry instants a cache holds: around the margin, seen from the first
\* minute of the model.
CachedExpiries == {MarginMinutes - 1, MarginMinutes, MarginMinutes + 1, MarginMinutes + 2}

\* The cache file: absent, not JSON, or a JSON object with token_data and
\* token_expiry, the expiry possibly missing or not an ISO instant.
CacheFiles ==
    {[state |-> "absent"], [state |-> "corrupt"]} \cup
    {[state |-> "json", token_data |-> td, token_expiry |-> e] :
        td \in TokenDicts \cup {TokenNone},
        e \in {IsoFormat(t) : t \in CachedExpiries} \cup {JsonNull, <<"text", 0>>}}

\* TokenManager._load_token_cache: what token_data and token_expiry are after
\* it; any exception resets both.
LoadTokenCache(file) ==
    IF file.state = "absent" \/ file.state = "corrupt"
    THEN [token_data |-> TokenNone, token_expiry |-> NoExpiry]
    ELSE IF file.token_expiry = JsonNull
    THEN [token_data |-> file.token_data, token_expiry |-> NoExpiry]
    ELSE IF file.token_expiry[1] # "iso"
    THEN [token_data |-> TokenNone, token_expiry |-> NoExpiry]
    ELSE [token_data |-> file.token_data,
          token_expiry |-> FromIsoFormat(file.token_expiry)]

\* The truth value Python gives token data: None and the empty dict are false.
Truthy(td) == td # TokenNone /\ DOMAIN td # {}

\* A wrong variant of IsTokenValid, which C21 rules out.
IsTokenValidAtMargin(td, expiry, t) ==
    Truthy(td) /\ expiry # NoExpiry /\ t <= expiry - MarginMinutes
\* TokenManager._is_token_valid
IsTokenValid(td, expiry, t) ==
    Truthy(td) /\ expiry # NoExpiry /\ t < expiry - MarginMinutes

\* A wrong variant of CanRefreshToken, which C22 rules out.
CanRefreshTokenNever(td) == FALSE
\* TokenManager._can_refresh_token
CanRefreshToken(td) == td # TokenNone /\ DictGet(td, "refresh_token") # NoValue

\* TokenManager._refresh_token and ._request_new_token: not implemented for
\* this API, they return False and change nothing.
RefreshToken == FALSE
RequestNewToken == FALSE

\* What a method returns: a value, or a header map as its set of items.
NoResult == [value |-> "none", headers |-> {}]

\* TokenManager.get_token: the token it returns and the request it makes.
GetTokenOutcome ==
    IF IsTokenValid(token_data, token_expiry, auth_clock)
    THEN [token |-> DictGet(token_data, "access_token"), attempt |-> "none"]
    ELSE LET refresh == CanRefreshToken(token_data)
             success == IF refresh THEN RefreshToken ELSE RequestNewToken
         IN  [token |-> IF success THEN DictGet(token_data, "access_token")
                        ELSE NoValue,
              attempt |-> IF refresh THEN "refresh" ELSE "new"]

GetToken ==
    /\ auth_op' = "get_token"
    /\ auth_result' = [value |-> GetTokenOutcome.token, headers |-> {}]
    /\ auth_attempt' = GetTokenOutcome.attempt
    /\ UNCHANGED <<token_data, token_expiry, auth_clock>>
    /\ UNCHANGED notAuth

\* TokenManager.get_auth_headers
GetAuthHeaders ==
    /\ auth_op' = "get_auth_headers"
    /\ auth_result' =
           [value |-> "headers",
            headers |-> IF GetTokenOutcome.token # NoValue
                        THEN {<<"Authorization", "Bearer", GetTokenOutcome.token>>}
                        ELSE {}]
    /\ auth_attempt' = GetTokenOutcome.attempt
    /\ UNCHANGED <<token_data, token_expiry, auth_clock>>
    /\ UNCHANGED notAuth

MaxAuthMinutes == 2

\* A minute passes.
AuthMinute ==
    /\ auth_clock < MaxAuthMinutes
    /\ auth_clock' = auth_clock + 1
    /\ UNCHANGED <<token_data, token_expiry, auth_op, auth_result, auth_attempt>>
    /\ UNCHANGED notAuth

AuthParked ==
    /\ token_data = TokenNone /\ token_expiry = NoExpiry /\ auth_clock = 0
    /\ auth_op = "none" /\ auth_result = NoResult /\ auth_attempt = "none"

\* TokenManager.__init__: the fields are what the cache file gives.
AuthInit ==
    /\ \E file \in CacheFiles :
           /\ token_data = LoadTokenCache(file).token_data
           /\ token_expiry = LoadTokenCache(file).token_expiry
    /\ auth_clock = 0
    /\ auth_op = "none" /\ auth_result = NoResult /\ auth_attempt = "none"

NextAuth ==
    \/ GetToken
    \/ GetAuthHeaders
    \/ AuthMinute


----------------------------------------------------------------------------
(* The settings module (settings.py): CONFIG as the import computes it.     *)

\* A dict with no keys.
EmptyDict == [k \in {} |-> "None"]

\* os.environ.get(name, default)
EnvironGet(env, name, default) == IF name \in DOMAIN env THEN env[name] ELSE default

\* int(s) for the numerals the environment carries.
IntOf(s) == CASE s = "30" -> 30 [] s = "60" -> 60 [] s = "3" -> 3

\* The values the variables are set to when they are set.
EnvironValues ==
    [ENVIRONMENT |-> "production", LOG_LEVEL |-> "DEBUG", API_TIMEOUT |-> "60"]
Environs == {Pick(EnvironValues, S) : S \in SUBSET DOMAIN EnvironValues}

\* What config.yaml says when it says anything.
YamlValues ==
    [environment |-> "staging", log_level |-> "WARNING", api |-> [timeout |-> 5]]
\* The file: missing, or a mapping (an empty file parses to None).
YamlFiles ==
    {[exists |-> FALSE, mapping |-> EmptyDict]} \cup
    {[exists |-> TRUE, mapping |-> Pick(YamlValues, S)] : S \in SUBSET DOMAIN YamlValues}

\* load_config: the mapping of the file, {} when it is missing or empty.
LoadConfig(file) == IF file.exists THEN file.mapping ELSE EmptyDict

\* The module constants: the environment variable if set, else the default.
Defaults(env) ==
    [environment |-> EnvironGet(env, "ENVIRONMENT", "development"),
     log_level |-> EnvironGet(env, "LOG_LEVEL", "INFO"),
     api |-> [base_url |-> EnvironGet(env, "API_BASE_URL", "https://statsapi.mlb.com/api/v1"),
              timeout |-> IntOf(EnvironGet(env, "API_TIMEOUT", "30")),
              retry_count |-> IntOf(EnvironGet(env, "API_RETRY_COUNT", "3"))],
     data_paths |-> [raw |-> "data/raw", processed |-> "data/processed"]]

\* dict.update: the keys of other replace those of d, whole values at a time.
DictUpdate(d, other) ==
    [k \in DOMAIN d \cup DOMAIN other |-> IF k \in DOMAIN other THEN other[k] ELSE d[k]]

\* import settings: CONFIG = {...}; CONFIG.update(load_config())
ImportSettings ==
    /\ ~settings_loaded
    /\ settings_loaded' = TRUE
    /\ CONFIG' = DictUpdate(Defaults(environ), LoadConfig(config_yaml))
    /\ UNCHANGED <<environ, config_yaml>>
    /\ UNCHANGED notSettings

SettingsParked ==
    /\ environ = EmptyDict
    /\ config_yaml = [exists |-> FALSE, mapping |-> EmptyDict]
    /\ settings_loaded = FALSE /\ CONFIG = EmptyDict

SettingsInit ==
    /\ environ \in Environs
    /\ config_yaml \in YamlFiles
    /\ settings_loaded = FALSE /\ CONFIG = EmptyDict

NextSettings == ImportSettings

----------------------------------------------------------------------------
(* setup_logger (logger.py:6-50) over the loggers of the logging module.    *)

LoggerNames == {"app", "api"}

\* getattr(logging, log_level.upper()): the numeric level of a level name in
\* either case.
LevelInputs == {"DEBUG", "INFO", "warning"}
LevelOf(log_level) ==
    CASE log_level \in {"DEBUG", "debug"} -> 10
      [] log_level \in {"INFO", "info"} -> 20
      [] log_level \in {"WARNING", "warning"} -> 30

\* logging.NOTSET, the level of a logger nobody has set up.
NotSet == 0

MaxLoggerCalls == 4

\* The console handler and the rotating file handler a first call makes.
NewHandlers(name, made) ==
    <<[kind |-> "StreamHandler", id |-> made + 1],
      [kind |-> "RotatingFileHandler", id |-> made + 2, file |-> name]>>

\* setup_logger(name, log_level): set the level, and attach the two handlers
\* unless the logger has handlers already.
SetupLoggerCall(name, log_level) ==
    /\ logger_calls < MaxLoggerCalls
    /\ logger_calls' = logger_calls + 1
    /\ logger_returned' = name
    /\ IF loggers[name].handlers # <<>>
       THEN /\ loggers' = [loggers EXCEPT ![name].level = LevelOf(log_level)]
            /\ UNCHANGED handlers_made
       ELSE /\ loggers' = [loggers EXCEPT
                              ![name] = [level |-> LevelOf(log_level),
                                         handlers |-> NewHandlers(name, handlers_made)]]
            /\ handlers_made' = handlers_made + 2
    /\ UNCHANGED notLogger
SetupLogger ==
    \E name \in LoggerNames, log_level \in LevelInputs : SetupLoggerCall(name, log_level)

LoggerParked ==
    /\ loggers = [name \in LoggerNames |-> [level |-> NotSet, handlers |-> <<>>]]
    /\ handlers_made = 0 /\ logger_calls = 0 /\ logger_returned = "none"

LoggerInit == LoggerParked

NextLogger == SetupLogger

----------------------------------------------------------------------------
(* CSVParser.save_to_csv and read_csv (csv_parser.py:38-88, 320-363).       *)
(* A string is the sequence of its characters; "Q" is the quote character,  *)
(* "LF" a line feed inside a value, "CRLF" the writer's line terminator.    *)

\* The keys and the values of the rows: plain, with surrounding whitespace,
\* empty, and with the characters the writer has to quote.
CsvKeys == {<<"a">>, <<" ", "a">>, <<"a", " ">>, <<"b">>}
CsvValues == {<<>>, <<"a">>, <<",", "Q">>, <<"LF">>}

MaxCsvRows == 2

\* The sequences of one or two distinct keys: the key order of data[0].
CsvFieldnames ==
    {<<k>> : k \in CsvKeys} \cup
    {pair \in CsvKeys \X CsvKeys : pair[1] # pair[2]}

\* The non-empty lists of row mappings with the keys of fieldnames.
CsvRowLists(fieldnames) ==
    LET keys == {fieldnames[i] : i \in DOMAIN fieldnames}
    IN  UNION {[1..n -> [keys -> CsvValues]] : n \in 1..MaxCsvRows}

\* A wrong variant of NeedsQuote, which C25 rules out.
NeedsQuoteForDelimiter(s) == \E i \in DOMAIN s : s[i] = ","
\* csv.QUOTE_MINIMAL: a field is quoted when it holds the delimiter, the
\* quote character or a line break.
NeedsQuote(s) == \E i \in DOMAIN s : s[i] \in {",", "Q", "LF"}

\* The quote characters of a field doubled.
RECURSIVE Escaped(_)
Escaped(s) ==
    IF s = <<>> THEN <<>>
    ELSE (IF Head(s) = "Q" THEN <<"Q", "Q">> ELSE <<Head(s)>>) \o Escaped(Tail(s))

\* One field as the writer puts it; a row of a single empty field is
\* written as two quote characters.
WriteField(s, alone) ==
    IF NeedsQuote(s) \/ (alone /\ s = <<>>)
    THEN <<"Q">> \o Escaped(s) \o <<"Q">>
    ELSE s

\* csv.writer.writerow: the fields joined by the delimiter, then CRLF.
RECURSIVE JoinFields(_, _)
JoinFields(fields, i) ==
    IF i > Len(fields) THEN <<"CRLF">>
    ELSE (IF i > 1 THEN <<",">> ELSE <<>>)
         \o WriteField(fields[i], Len(fields) = 1) \o JoinFields(fields, i + 1)
WriteRow(fields) == JoinFields(fields, 1)

\* The rows of data, each after the other.
RECURSIVE WriteRows(_, _, _)
WriteRows(fieldnames, rows, i) ==
    IF i > Len(rows) THEN <<>>
    ELSE WriteRow([j \in DOMAIN fieldnames |-> rows[i][fieldnames[j]]])
         \o WriteRows(fieldnames, rows, i + 1)

\* save_to_csv on a non-empty list: writeheader(), then writerow(row) for
\* each row.
SavedText(data) == WriteRow(data.fieldnames) \o WriteRows(data.fieldnames, data.rows, 1)

\* csv.reader: the records of the text, each the sequence of its fields; an
\* empty line is an empty record.
RECURSIVE ParseCsv(_, _, _, _, _, _)
ParseCsv(text, i, state, field, record, records) ==
    IF i > Len(text)
    THEN IF state = "start_record" THEN records
         ELSE Append(records, Append(record, field))
    ELSE
    LET c == text[i]
        sameField(st, f) == ParseCsv(text, i + 1, st, f, record, records)
        nextField == ParseCsv(text, i + 1, "start", <<>>, Append(record, field), records)
        endRecord == ParseCsv(text, i + 1, "start_record", <<>>, <<>>,
                              Append(records, Append(record, field)))
    IN  CASE state \in {"start_record", "start"} ->
                 IF c = "Q" THEN sameField("quoted", <<>>)
                 ELSE IF c = "," THEN nextField
                 ELSE IF c \in {"CRLF", "LF"}
                 THEN IF state = "start_record"
                      THEN ParseCsv(text, i + 1, "start_record", <<>>, <<>>,
                                    Append(records, <<>>))
                      ELSE endRecord
                 ELSE sameField("unquoted", <<c>>)
          [] state = "unquoted" ->
                 IF c = "," THEN nextField
                 ELSE IF c \in {"CRLF", "LF"} THEN endRecord
                 ELSE sameField("unquoted", Append(field, c))
          [] state = "quoted" ->
                 IF c = "Q" THEN sameField("quote_seen", field)
                 ELSE sameField("quoted", Append(field, c))
          [] state = "quote_seen" ->
                 IF c = "Q" THEN sameField("quoted", Append(field, "Q"))
                 ELSE IF c = "," THEN nextField
                 ELSE IF c \in {"CRLF", "LF"} THEN endRecord
                 ELSE sameField("unquoted", Append(field, c))

\* str.strip(): leading and trailing whitespace removed.
RECURSIVE Strip(_)
Strip(s) ==
    IF s = <<>> THEN s
    ELSE IF Head(s) \in {" ", "LF"} THEN Strip(Tail(s))
    ELSE IF s[Len(s)] \in {" ", "LF"} THEN Strip(SubSeq(s, 1, Len(s) - 1))
    ELSE s

\* The value of a key a short record does not reach (restval).
CsvNone == <<"None">>

\* One record as read_csv returns it: the fields under the stripped names of
\* the header, the last of equal names winning; fields beyond the header are
\* dropped.
CleanedRow(header, record) ==
    LET names == {Strip(header[j]) : j \in DOMAIN header}
        last(k) == CHOOSE j \in DOMAIN header :
                       /\ Strip(header[j]) = k
                       /\ \A h \in DOMAIN header : Strip(header[h]) = k => h <= j
    IN  [k \in names |-> IF last(k) \in DOMAIN record THEN record[last(k)] ELSE CsvNone]

\* csv.DictReader skips the empty records; the first of the others is the
\* header.
ReadRows(text) ==
    LET records == SelectSeq(ParseCsv(text, 1, "start_record", <<>>, <<>>, <<>>),
                             LAMBDA r : r # <<>>)
    IN  IF records = <<>> THEN <<>>
        ELSE [i \in 1..(Len(records) - 1) |-> CleanedRow(records[1], records[i + 1])]

SaveToCsv ==
    /\ csv_pc = "start"
    /\ csv_pc' = "saved"
    /\ csv_file' = SavedText(csv_data)
    /\ UNCHANGED <<csv_data, csv_read>>
    /\ UNCHANGED notCsv

ReadCsv ==
    /\ csv_pc = "saved"
    /\ csv_pc' = "read"
    /\ csv_read' = ReadRows(csv_file)
    /\ UNCHANGED <<csv_data, csv_file>>
    /\ UNCHANGED notCsv

CsvParked ==
    /\ csv_data = [fieldnames |-> <<>>, rows |-> <<>>]
    /\ csv_file = <<>> /\ csv_read = <<>> /\ csv_pc = "start"

CsvInit ==
    /\ \E fieldnames \in CsvFieldnames :
           \E rows \in CsvRowLists(fieldnames) :
               csv_data = [fieldnames |-> fieldnames, rows |-> rows]
    /\ csv_file = <<>> /\ csv_read = <<>> /\ csv_pc = "start"

NextCsv ==
    \/ SaveToCsv
    \/ ReadCsv

\* C25 (as stated): the rows read back from a file save_to_csv wrote are the
\* rows that were written, in order, each with the same keys and the same
\* values, whatever whitespace the keys carry.
C25_RoundTripKeepsKeys ==
    csv_pc = "read" =>
        /\ Len(csv_read) = Len(csv_data.rows)
        /\ \A i \in DOMAIN csv_read : csv_read[i] = csv_data.rows[i]

C25_Keys == {csv_data.fieldnames[j] : j \in DOMAIN csv_data.fieldnames}
C25_StrippedKeysDistinct ==
    \A k1 \in C25_Keys : \A k2 \in C25_Keys : Strip(k1) = Strip(k2) => k1 = k2

\* C25 (amended): the rows read back are as many as were written and in the
\* same order; each has the written keys with their surrounding whitespace
\* removed, and, when the keys stay distinct after that, each key carries
\* the value that was written under it, character for character.
C25_RoundTripStripsKeys ==
    csv_pc = "read" =>
        /\ Len(csv_read) = Len(csv_data.rows)
        /\ \A i \in DOMAIN csv_read :
               /\ DOMAIN csv_read[i] = {Strip(k) : k \in C25_Keys}
               /\ C25_StrippedKeysDistinct =>
                      \A k \in C25_Keys : csv_read[i][Strip(k)] = csv_data.rows[i][k]

\* Two rows under a key with leading whitespace, with an empty value, a
\* value holding the delimiter and the quote character, and one holding a
\* line feed, have been written and read back.
C25_Witness ==
    /\ csv_pc = "read"
    /\ csv_data.fieldnames = << <<" ", "a">>, <<"b">> >>
    /\ Len(csv_data.rows) = 2
    /\ csv_data.rows[1][<<" ", "a">>] = <<",", "Q">>
    /\ csv_data.rows[1][<<"b">>] = <<>>
    /\ csv_data.rows[2][<<"b">>] = <<"LF">>
    /\ csv_read[1][<<"a">>] = <<",", "Q">>
    /\ csv_read[2][<<"b">>] = <<"LF">>

UtilParked == AuthParked /\ SettingsParked /\ LoggerParked /\ CsvParked

----------------------------------------------------------------------------
(* Specifications.                                                         *)

InitRate == now = StartTime /\ RateInit /\ WindowParked /\ SyncParked /\ StorageParked /\ DataParked
    /\ BackupParked
    /\ UtilParked
SpecRate == InitRate /\ [][NextRate]_vars

InitWindow == now = StartTime /\ RateParked /\ WindowInit /\ SyncParked /\ StorageParked /\ DataParked
    /\ BackupParked
    /\ UtilParked
SpecWindow == InitWindow /\ [][NextWindow]_vars

InitSync == now = StartTime + HistoryLimit /\ RateParked /\ WindowParked /\ SyncInit /\ StorageParked /\ DataParked
    /\ BackupParked
    /\ UtilParked
SpecSync == InitSync /\ [][NextSync]_vars

InitStorage ==
    now = StartTime /\ RateParked /\ WindowParked /\ SyncParked /\ StorageInit /\ DataParked
    /\ BackupParked
    /\ UtilParked
SpecStorage == InitStorage /\ [][NextStorage]_vars

InitData ==
    /\ now = StartTime /\ RateParked /\ WindowParked /\ SyncParked /\ StorageParked
    /\ DataInit /\ BackupParked
    /\ UtilParked
SpecData == InitData /\ [][NextData]_vars

InitBackup ==
    /\ now = StartTime /\ RateParked /\ WindowParked /\ SyncParked /\ DataParked
    /\ StorageInit /\ BackupInit /\ (~db_exists => tables = {})
    /\ UtilParked
SpecBackup == InitBackup /\ [][NextBackup]_vars

InitAuth ==
    /\ now = StartTime /\ RateParked /\ WindowParked /\ SyncParked /\ StorageParked
    /\ DataParked /\ BackupParked /\ AuthInit /\ SettingsParked /\ LoggerParked /\ CsvParked
SpecAuth == InitAuth /\ [][NextAuth]_vars

\* The components of the data collection package, all out of play.
CoreParked ==
    /\ now = StartTime /\ RateParked /\ WindowParked /\ SyncParked /\ StorageParked
    /\ DataParked /\ BackupParked

InitSettings == CoreParked /\ AuthParked /\ SettingsInit /\ LoggerParked /\ CsvParked
SpecSettings == InitSettings /\ [][NextSettings]_vars

InitLogger == CoreParked /\ AuthParked /\ SettingsParked /\ LoggerInit /\ CsvParked
SpecLogger == InitLogger /\ [][NextLogger]_vars

InitCsv == CoreParked /\ AuthParked /\ SettingsParked /\ LoggerParked /\ CsvInit
SpecCsv == InitCsv /\ [][NextCsv]_vars

----------------------------------------------------------------------------
(* Claims about the rate limiters.                                         *)

\* C1: with an operation that fails on every invocation and max_retries = N,
\* execute invokes it exactly N + 1 times and then raises the exhausted-retries
\* failure: it never invokes it more than N + 1 times, it raises only after
\* N + 1 invocations, and N + 1 failed invocations always end in the raise.
C1_ExactlyMaxRetriesPlusOneAttempts ==
    /\ attempts <= max_retries + 1
    /\ (pc = "raised" => attempts = max_retries + 1 /\ retries = attempts)
    /\ (retries = max_retries + 1 => pc = "raised")

C1_Witness == pc = "raised" /\ max_retries = 3 /\ attempts = 4 /\ retries = 4

\* C2 as claimed: any two consecutive invocations of the wrapped operation
\* start at least rate_limit_ms apart.
C2_StartsSpaced ==
    prevStart >= 0 => lastStart - prevStart >= rate_limit_ms * TicksPerMs

\* C2 as amended: any two consecutive request times recorded by wait_if_needed
\* (the whole-millisecond clock readings taken right before each invocation)
\* are at least rate_limit_ms apart, and the very first invocation is never
\* delayed.
C2_StampsSpaced ==
    /\ (prevStamp > 0 => last_request_time - prevStamp >= rate_limit_ms)
    /\ (prevStamp = 0 => lastWait = 0)

\* A second invocation that wait_if_needed delayed to exactly the interval,
\* yet started less than the interval after the first started.
C2_Witness ==
    /\ prevStamp > 0 /\ lastWait > 0 /\ pc = "returned" /\ attempts = 1
    /\ last_request_time - prevStamp = rate_limit_ms
    /\ lastStart - prevStart < rate_limit_ms * TicksPerMs

\* C4: for backoff base 2 the backoff of retry attempt n lies in
\* [2^n, 1.2 * 2^n) seconds, and execute sleeps the backoffs of attempts
\* 1, 2, ... in this order, one per failed attempt that a retry follows and
\* none after the final failed attempt.
C4_InRange(n, ticks) ==
    /\ (2 ^ n) * TicksPerSecond <= ticks
    /\ 10 * ticks < 12 * (2 ^ n) * TicksPerSecond

C4_BackoffRangeAndOrder ==
    /\ \A i \in DOMAIN backoffLog :
         backoffLog[i].n = i /\ C4_InRange(i, backoffLog[i].ticks)
    /\ (pc = "backoff" => C4_InRange(retries, pendingBackoff))
    /\ Len(backoffLog) = IF pc \in {"backoff", "raised"} THEN retries - 1 ELSE retries

\* Three retries, each after its backoff, the third backoff the greatest the
\* jitter allows, and no backoff after the fourth failure.
C4_Witness ==
    /\ pc = "raised" /\ max_retries = 3 /\ Len(backoffLog) = 3
    /\ backoffLog[1].ticks = 2 * TicksPerSecond
    /\ 10 * (backoffLog[3].ticks + 1) = 12 * 8 * TicksPerSecond

\* C3: among any max_requests + 1 timestamps recorded by the time-window
\* limiter, the earliest and the latest are at least the window apart.
C3_WindowBudgetRespected ==
    \A i \in DOMAIN recorded, j \in DOMAIN recorded :
        j = i + max_requests => recorded[j] - recorded[i] >= WindowTicks

----------------------------------------------------------------------------
(* Claims about the storage engine.                                        *)

\* The players row a successful insert_player(d) is claimed to leave.
C5_ExpectedPlayerRow(d) ==
    [id |-> d["id"], full_name |-> d["full_name"], first_name |-> d["first_name"],
     last_name |-> d["last_name"], active |-> 1,
     team_id |-> IF "team_id" \in DOMAIN d THEN d["team_id"] ELSE Null,
     updated_at |-> IF "updated_at" \in DOMAIN d THEN d["updated_at"] ELSE "now"]

\* C5: every successful insert_player(d) leaves the players table with exactly
\* one row of id d.id, whose fields are the values of this insert, and with
\* the rows of all other ids as they were; so after any sequence of successful
\* calls there is one row per id inserted, equal to the most recent insert.
C5_PlayerUpsert ==
    [][(lastCall'.op = "insert_player" /\ calls' # calls /\ result'.raised = "none") =>
          LET d == lastCall'.args
          IN  /\ {r \in committed'["players"] : r["id"] = d["id"]}
                    = {C5_ExpectedPlayerRow(d)}
              /\ {r \in committed'["players"] : r["id"] # d["id"]}
                    = {r \in working["players"] : r["id"] # d["id"]}
              /\ working' = committed']_vars

\* The same player inserted over its existing row with the later updated_at:
\* one row, equal to this insert.
C5_Witness ==
    /\ lastCall.op = "insert_player" /\ result.raised = "none" /\ conflict
    /\ lastCall.args = With(PlayerRecord(1, "A"), "updated_at", "t2")
    /\ committed["players"] = {C5_ExpectedPlayerRow(lastCall.args)}

\* C6: an entity upsert called with a record lacking a required field raises
\* the validation failure naming the first missing field, executes no
\* statement, and leaves every table's contents unchanged.
C6_ValidationFailureChangesNothing ==
    [][\A t \in Tables :
          LET required == RequiredFields(t)
              d == lastCall'.args
          IN  (/\ lastCall'.op = InsertMethod(t) /\ calls' # calls
               /\ \E i \in DOMAIN required : required[i] \notin DOMAIN d) =>
                /\ result'.raised = "ValueError"
                /\ \E i \in DOMAIN required :
                      /\ required[i] \notin DOMAIN d
                      /\ \A j \in 1..(i - 1) : required[j] \in DOMAIN d
                      /\ result'.value = required[i]
                /\ executed' = 0
                /\ working' = working
                /\ committed' = committed]_vars

\* C7: execute_transaction is all-or-nothing from any prior state: if every
\* statement of the list succeeds their effects are committed and it reports
\* success; if one fails it reports failure and no effect of the list stays
\* on the connection or in the database.
C7_TransactionAllOrNothing ==
    [][(lastCall'.op = "execute_transaction" /\ calls' # calls) =>
          LET run == RunStatements(lastCall'.args, 1, working, tables)
          IN  IF run.raised = "none"
              THEN /\ result' = [raised |-> "none", value |-> "True"]
                   /\ committed' = run.db
              ELSE /\ result' # [raised |-> "none", value |-> "True"]
                   /\ committed' = committed
                   /\ working' = committed']_vars

\* C8: on an initialised database every foreign key of the catalog references
\* players(id) or teams(id), a table initialize_database created, and every
\* open connection enforces foreign keys.
C8_ForeignKeysTargetCreatedTables ==
    /\ connection = "open" => foreign_keys
    /\ tables # {} =>
          \A fk \in ForeignKeys : fk.ref \in {"players", "teams"} /\ fk.ref \in tables

C9_AllowList ==
    {"era", "whip", "wins", "losses", "saves", "strike_outs", "base_on_balls",
     "innings_pitched", "home_runs", "hits"}

\* C9: get_top_pitchers with a statistic outside the allow-list fails with the
\* invalid-input error and issues no query; with an allowed statistic and an
\* order other than exactly 'ASC' or 'DESC' it raises no invalid-input error,
\* issues the query sorted ascending, and on an initialised database succeeds.
C9_LeaderboardValidation ==
    lastCall.op = "get_top_pitchers" =>
        LET stat == lastCall.args[1]
            order == lastCall.args[2]
        IN  /\ stat \notin C9_AllowList =>
                  result.raised = "ValueError" /\ executed = 0 /\ lastQuery = <<>>
            /\ (stat \in C9_AllowList /\ order \notin {"ASC", "DESC"}) =>
                  /\ result.raised # "ValueError"
                  /\ executed = 1
                  /\ lastQuery = <<stat, "ASC">>
                  /\ (tables = Tables => result.raised = "none")

\* The unsupported statistic of the spec, refused on an initialised database.
C9_Witness ==
    /\ lastCall = [op |-> "get_top_pitchers", args |-> <<"batting_average", "DESC">>]
    /\ result = [raised |-> "ValueError", value |-> "batting_average"]
    /\ executed = 0 /\ tables = Tables /\ connection = "open"

----------------------------------------------------------------------------
(* Claims about the synchronizer.                                          *)

\* C10: after any sequence of update_last_sync and record_sync_error
\* operations the persisted sync history holds at most 100 entries.
C10_HistoryBounded == Len(sync_history) <= HistoryLimit

\* C11: record_sync_error(c, msg) appends exactly one history entry, of status
\* "error" with category c and message msg, to the history as it was, and
\* get_last_sync returns for every category what it returned before.
C11_ErrorRecordedLastSyncKept ==
    [][\A c \in DataTypes, msg \in ErrorMessages :
          RecordSyncErrorCall(c, msg) =>
              /\ Len(sync_history') = Len(sync_history) + 1
              /\ SubSeq(sync_history', 1, Len(sync_history)) = sync_history
              /\ sync_history'[Len(sync_history')].status = "error"
              /\ sync_history'[Len(sync_history')].type = c
              /\ sync_history'[Len(sync_history')].message = msg
              /\ \A q \in QueriedTypes :
                    GetLastSync(last_sync', q) = GetLastSync(last_sync, q)]_vars

\* An error recorded for teams after players and teams were synchronised.
C11_Witness ==
    /\ sync_history # <<>>
    /\ sync_history[Len(sync_history)].status = "error"
    /\ sync_history[Len(sync_history)].type = "teams"
    /\ DOMAIN last_sync = {"players", "teams"}

----------------------------------------------------------------------------
(* Claims about merge_data and detect_changes.                             *)

\* The record has the key field.
Keyed(item) == KeyField \in DOMAIN item

\* No key occurs in two records of the list.
UniqueKeys(data) ==
    \A i \in DOMAIN data, j \in DOMAIN data :
        (Keyed(data[i]) /\ Keyed(data[j]) /\ data[i][KeyField] = data[j][KeyField])
            => i = j

\* The source's updated_at is strictly newer than the target's, or the target
\* has no updated_at.
C12_Prefers(s, t) ==
    \/ "updated_at" \notin DOMAIN t
    \/ "updated_at" \in DOMAIN s /\ s["updated_at"] > t["updated_at"]

\* The statement of C12 about one call of merge_data.
C12_Body ==
    /\ \A i \in DOMAIN source_data, j \in DOMAIN target_data :
         LET s == source_data[i]
             t == target_data[j]
         IN  (Keyed(s) /\ Keyed(t) /\ s[KeyField] = t[KeyField]) =>
                 IF C12_Prefers(s, t) THEN s \in Range(merged_data)
                                      ELSE t \in Range(merged_data)
    /\ \A i \in DOMAIN source_data :
         (Keyed(source_data[i]) /\ source_data[i][KeyField] \notin Keys(target_data))
             => source_data[i] \in Range(merged_data)
    /\ Keys(source_data) \cup Keys(target_data) \subseteq Keys(merged_data)

\* C12 as claimed: for every key present in both lists the merged output holds
\* the source record if the source's updated_at is strictly newer or the
\* target has none, and the target record otherwise; every record whose key
\* occurs only in the source is in the output; every key occurs in the output.
C12_MergePrefersNewerSource == dataOp = "merge_data" => C12_Body

\* C12 as amended: the keys of the output are exactly the keys of source and
\* target and every output record comes from one of them; when no key repeats
\* within the source or within the target, the output has one record per key
\* and the claimed statement holds.
C12_MergeKeyedUnion ==
    dataOp = "merge_data" =>
        /\ Keys(merged_data) = Keys(source_data) \cup Keys(target_data)
        /\ Range(merged_data) \subseteq Range(source_data) \cup Range(target_data)
        /\ (UniqueKeys(source_data) /\ UniqueKeys(target_data)) =>
               UniqueKeys(merged_data) /\ C12_Body

\* A newer source record replaces the target's, in place, and a record only
\* the source has is appended.
C12_Witness ==
    /\ dataOp = "merge_data"
    /\ source_data = <<[id |-> 1, updated_at |-> 2], [id |-> 2, updated_at |-> 1]>>
    /\ target_data = <<[id |-> 1, updated_at |-> 1]>>
    /\ merged_data = <<[id |-> 1, updated_at |-> 2], [id |-> 2, updated_at |-> 1]>>

\* C13: no record lacking the key field, from the source or from the target,
\* is in the merged output.
C13_KeylessRecordsSkipped ==
    dataOp = "merge_data" => \A i \in DOMAIN merged_data : Keyed(merged_data[i])

\* The keys of a set of keyed records.
KeysOf(items) == {r[KeyField] : r \in items}

\* The records of data that have a key which is none of keys.
KeyedOutside(data, keys) ==
    {r \in Range(data) : Keyed(r) /\ r[KeyField] \notin keys}

\* The last record of data with key k.
LastWithKey(data, k) ==
    LET at == {i \in DOMAIN data : Keyed(data[i]) /\ data[i][KeyField] = k}
    IN  data[CHOOSE i \in at : \A j \in at : j <= i]

\* The three results have pairwise disjoint keys, and every updated record has
\* a key present in both lists.
C14_Disjoint ==
    /\ KeysOf(changes.added) \cap KeysOf(changes.updated) = {}
    /\ KeysOf(changes.added) \cap KeysOf(changes.removed) = {}
    /\ KeysOf(changes.updated) \cap KeysOf(changes.removed) = {}
    /\ KeysOf(changes.updated) \subseteq Keys(target_data) \cap Keys(source_data)

\* C14 as claimed: detect_changes(old, new, key) returns three sets with
\* pairwise disjoint keys; added are exactly the records of new whose key is
\* absent from old, removed exactly the records of old whose key is absent
\* from new, and updated records have a key present in both.
C14_AddedRemovedExact ==
    dataOp = "detect_changes" =>
        /\ C14_Disjoint
        /\ changes.added = KeyedOutside(source_data, Keys(target_data))
        /\ changes.removed = KeyedOutside(target_data, Keys(source_data))

\* C14 as amended: the three sets have pairwise disjoint keys and updated
\* records a key present in both; added holds, for each key of new absent from
\* old, the last record of new with that key, and removed, for each key of old
\* absent from new, the last record of old with that key; when no key repeats
\* within a list these are exactly the records with such keys.
C14_AddedRemovedPerKey ==
    dataOp = "detect_changes" =>
        /\ C14_Disjoint
        /\ changes.added =
             {LastWithKey(source_data, k) : k \in Keys(source_data) \ Keys(target_data)}
        /\ changes.removed =
             {LastWithKey(target_data, k) : k \in Keys(target_data) \ Keys(source_data)}
        /\ changes.updated \subseteq
             {LastWithKey(source_data, k) : k \in Keys(source_data) \cap Keys(target_data)}
        /\ UniqueKeys(source_data) =>
             changes.added = KeyedOutside(source_data, Keys(target_data))
        /\ UniqueKeys(target_data) =>
             changes.removed = KeyedOutside(target_data, Keys(source_data))

\* The example of the spec: record 1 updated, record 2 added, none removed.
C14_Witness ==
    /\ dataOp = "detect_changes"
    /\ target_data = <<[id |-> 1, updated_at |-> 1]>>
    /\ source_data = <<[id |-> 1, updated_at |-> 2], [id |-> 2, updated_at |-> 1]>>
    /\ changes = [added |-> {[id |-> 2, updated_at |-> 1]},
                  updated |-> {[id |-> 1, updated_at |-> 2]},
                  removed |-> {}]

\* C15: a key present in both lists is reported as updated if and only if the
\* new record has a strictly newer updated_at than the old one, or the two do
\* not both carry an updated_at and their serialized content differs; with
\* both timestamps present and the new one not newer it is not reported.
C15_UpdatedOnlyWhenNewer ==
    dataOp = "detect_changes" =>
        \A k \in Keys(target_data) \cap Keys(source_data) :
            LET old_item == LastWithKey(target_data, k)
                new_item == LastWithKey(source_data, k)
                stamped == "updated_at" \in DOMAIN old_item
                              /\ "updated_at" \in DOMAIN new_item
            IN  new_item \in changes.updated <=>
                    \/ stamped /\ new_item["updated_at"] > old_item["updated_at"]
                    \/ ~stamped /\ old_item # new_item

----------------------------------------------------------------------------
(* Claims about DataBackup.                                                *)

\* The step in which create_database_backup writes the snapshot and rotates.
SnapshotWritten ==
    bpc = "copy" /\ bop.op = "create_database_backup" /\ bpc' = "idle"

\* C16: whenever create_database_backup creates a backup file, on return the
\* backup directory holds at most 10 snapshots, every snapshot deleted is no
\* newer by modification time than every snapshot kept, and the ones kept are
\* as they were; from 12 existing snapshots, creating one more leaves exactly
\* 10, 3 having been removed.
C16_RotationKeepsNewestTen ==
    [][SnapshotWritten =>
          /\ Cardinality(DOMAIN backups') <= 10
          /\ \A d \in DOMAIN backups \ DOMAIN backups', k \in DOMAIN backups' :
                 backups[d].mtime <= backups'[k].mtime
          /\ bop.path \notin DOMAIN backups' =>
                 \A k \in DOMAIN backups' : db_mtime <= backups'[k].mtime
          /\ \A k \in (DOMAIN backups' \cap DOMAIN backups) \ {bop.path} :
                 backups'[k] = backups[k]
          /\ (Cardinality(DOMAIN backups) = 12 /\ bop.path \notin DOMAIN backups) =>
                 /\ Cardinality(DOMAIN backups') = 10
                 /\ Cardinality((DOMAIN backups \cup {bop.path}) \ DOMAIN backups') = 3
    ]_vars

\* The example of the spec: twelve snapshots, one more is created, ten stay,
\* the new one among them and the two oldest gone.
C16_Witness ==
    /\ bpc = "idle" /\ bop.op = "create_database_backup" /\ bresult = "path"
    /\ Cardinality(DOMAIN backups) = 10
    /\ bop.path \in DOMAIN backups
    /\ DOMAIN backups \cap {1, 2} = {}
    /\ \E k \in 5..12 : k \in DOMAIN backups

\* C17: create_database_backup creates no new snapshot while a snapshot exists
\* that was made less than backup_interval_days days ago, whatever the age of
\* the database file's last modification; so two calls within one interval
\* create at most one file.
C17_NoSnapshotWithinInterval ==
    [][(SnapshotWritten /\ bop.path \notin DOMAIN backups) =>
          \A f \in DOMAIN backups :
              ElapsedDays(backups[f].made, wall) >= backup_interval_days
    ]_vars

\* C18: in every backup or restore operation the storage engine's connection
\* is closed when the operation comes to read, copy or overwrite the database
\* file, and the step that does so leaves it closed.
C18_ClosedBeforeFileIsTouched ==
    /\ [](bpc = "copy" => connection = "closed")
    /\ [][bpc = "copy" => connection' = "closed"]_vars

\* A query opened the connection and a restore, about to copy, closed it.
C18_Witness ==
    /\ bpc = "copy" /\ bop.op = "restore_database"
    /\ lastCall.op = "get_top_pitchers" /\ executed = 1
    /\ connection = "closed"

\* A restore is entered with a backup path that does not exist.
MissingPathRestore ==
    /\ bpc = "idle" /\ backupOps' # backupOps
    /\ \/ bop'.op = "restore_database" /\ bop'.path \notin DOMAIN backups
       \/ bop'.op = "restore_from_zip" /\ bop'.path \notin DOMAIN zips

\* C19: restore_database and restore_from_zip called with a backup path that
\* does not exist return False and change nothing: the database file, the
\* data directories, the files next to the database (no pre-restore copy),
\* the backups and the state of the connection stay as they were.
C19_MissingBackupChangesNothing ==
    [][MissingPathRestore =>
          /\ bpc' = "idle" /\ bresult' = "False"
          /\ UNCHANGED <<db_exists, db_mtime, data_dirs, pre_restores, backups, zips>>
          /\ UNCHANGED storageVars
    ]_vars

\* A restore of a missing path returned False while the connection was open.
C19_Witness ==
    /\ bpc = "idle" /\ bresult = "False"
    /\ bop.op \in {"restore_database", "restore_from_zip"} /\ bop.path = MissingPath
    /\ connection = "open" /\ db_exists

\* restore_database succeeds over a database file that was there.
DatabaseRestored ==
    /\ bpc = "copy" /\ bop.op = "restore_database"
    /\ bpc' = "idle" /\ bresult' = "True"
    /\ db_exists

\* C20: after a successful restore_database(b) over an existing database the
\* database holds the content of b, a pre-restore copy holds the content the
\* database had before, and every earlier pre-restore copy is still there
\* with its content.
C20_PreRestoreCopiesKept ==
    [][DatabaseRestored =>
          /\ [tables |-> tables', rows |-> committed'] = backups[bop.path].content
          /\ \E n \in DOMAIN pre_restores' : pre_restores'[n] = LiveContent
          /\ \A n \in DOMAIN pre_restores :
                 n \in DOMAIN pre_restores' /\ pre_restores'[n] = pre_restores[n]
    ]_vars

\* The step in which create_zip_backup writes the archive and rotates.
ArchiveWritten ==
    bpc = "copy" /\ bop.op = "create_zip_backup" /\ bpc' = "idle"

C29_ReturnedSnapshotExists ==
    (bpc = "idle" /\ bop.op = "create_database_backup" /\ bresult = "path") =>
        bop.path \in DOMAIN backups

\* A storage method other than close was called and was not turned away
\* before it came to the database.
DatabaseMethodCalled ==
    /\ calls' # calls
    /\ lastCall'.op # "close"
    /\ ~(lastCall'.op = "get_top_pitchers" /\ result'.raised = "ValueError")

\* C28: the storage engine never has a second connection: a method that
\* comes to the database with none open opens one, one that finds it open
\* reuses it, and close on a closed engine changes nothing and does not fail.
C28_OneConnectionReused ==
    [][/\ connection = "open" => connects' = connects
       /\ connects' \in {connects, connects + 1}
       /\ DatabaseMethodCalled =>
             /\ connection' = "open"
             /\ connects' = IF connection = "closed" THEN connects + 1 ELSE connects
       /\ (calls' # calls /\ lastCall'.op = "close") =>
             /\ connection' = "closed" /\ result'.raised = "none"
             /\ connection = "closed" =>
                    UNCHANGED <<connects, foreign_keys, tables, committed, working,
                                in_transaction>>
    ]_vars

\* Three calls, the last a close, and one connection was ever opened.
C28_Witness ==
    /\ calls = 3 /\ connects = 1 /\ connection = "closed" /\ lastCall.op = "close"

\* C26: on an initialized database, insert_pitch with a record carrying all
\* required fields, a game date, and pitcher and batter ids of stored players
\* succeeds and leaves exactly one pitches row of that id, the one
\* get_pitch_data selects for the pitcher.
C26_InsertPitchStoresOneRow ==
    [][LET d == lastCall'.args
           required == RequiredFields("pitches")
           stored == {r["id"] : r \in working["players"]}
       IN  (/\ lastCall'.op = "insert_pitch" /\ calls' # calls
            /\ tables = Tables
            /\ \A i \in DOMAIN required : required[i] \in DOMAIN d
            /\ {"game_date", "batter_id"} \subseteq DOMAIN d
            /\ d["player_id"] \in stored /\ d["batter_id"] \in stored) =>
               /\ result'.raised = "none"
               /\ Cardinality({r \in committed'["pitches"] : r["id"] = d["id"]}) = 1
               /\ \A r \in committed'["pitches"] :
                      r["id"] = d["id"] => r["player_id"] = d["player_id"]
    ]_vars

\* The ids stored in table t of db.
StoredIds(db, t) == {r["id"] : r \in db[t]}

\* Every reference of the player and the stats rows of db has its target.
C30_Referenced(db) ==
    /\ \A r \in db["players"] :
           r["team_id"] # Null => r["team_id"] \in StoredIds(db, "teams")
    /\ \A t \in {"season_pitching_stats", "game_pitching_stats"} :
           \A r \in db[t] :
               /\ r["player_id"] \in StoredIds(db, "players")
               /\ r["team_id"] \in StoredIds(db, "teams")
    /\ \A r \in db["game_pitching_stats"] :
           r["opponent_id"] \in StoredIds(db, "teams")

\* The record of an insert names, in a referencing column of table t, an id
\* that is not stored.
C30_Dangling(db, t, d) ==
    \E fk \in ForeignKeys :
        /\ fk.table = t /\ fk.ref \in Tables
        /\ fk.column \in DOMAIN d
        /\ d[fk.column] \notin StoredIds(db, fk.ref)

\* C30: referential integrity is an invariant of the storage engine: in
\* every state every non-null players.team_id is the id of a stored team and
\* every stats row's player_id, team_id and opponent_id are ids of stored
\* players and teams; an upsert whose record names an id that is not stored
\* fails and leaves all tables unchanged.
C30_ReferentialIntegrity ==
    /\ [](C30_Referenced(committed) /\ C30_Referenced(working))
    /\ [][\A t \in {"players", "season_pitching_stats", "game_pitching_stats"} :
              (/\ lastCall'.op = InsertMethod(t) /\ calls' # calls
               /\ tables = Tables
               /\ C30_Dangling(working, t, lastCall'.args)) =>
                  /\ result'.raised # "none"
                  /\ committed' = committed /\ working' = committed
       ]_vars

\* A player naming a team that is not stored was turned away, with a player
\* of a stored team in place.
C30_Witness ==
    /\ lastCall.op = "insert_player" /\ "team_id" \in DOMAIN lastCall.args
    /\ lastCall.args["team_id"] \notin StoredIds(committed, "teams")
    /\ result.raised = "sqlite3.Error"
    /\ \E r \in committed["players"] : r["team_id"] \in StoredIds(committed, "teams")

----------------------------------------------------------------------------
(* Claims about TokenManager.                                              *)

\* token data and expiry are present and the clock is strictly earlier than
\* the expiry less 10 minutes.
C21_Valid ==
    /\ token_data # TokenNone /\ DOMAIN token_data # {}
    /\ token_expiry # NoExpiry
    /\ auth_clock < token_expiry - 10

\* The step is a call of the method.
C21_Calls(method) == auth_op' = method /\ auth_clock' = auth_clock

\* C21: get_token returns the cached access token without a refresh or a
\* new-token request exactly when token data and expiry are present and the
\* current time is strictly earlier than expiry minus 10 minutes; so an
\* expiry 9 or 10 minutes ahead is invalid and one 11 minutes ahead valid.
C21_CachedTokenWithinMargin ==
    [][C21_Calls("get_token") =>
          /\ auth_attempt' = "none" <=> C21_Valid
          /\ C21_Valid => auth_result'.value = DictGet(token_data, "access_token")
          /\ token_expiry \in {auth_clock + 9, auth_clock + 10} => auth_attempt' # "none"
          /\ (token_expiry = auth_clock + 11 /\ token_data \in TokenDicts \ {<<>>}) =>
                 auth_attempt' = "none"
    ]_vars

\* The token whose expiry is 11 minutes ahead was returned from the cache.
C21_Witness ==
    /\ auth_op = "get_token" /\ auth_attempt = "none"
    /\ auth_result.value = "a1"
    /\ token_expiry = auth_clock + 11

\* C22: whenever the cached token is not valid, get_token returns no value
\* and get_auth_headers an empty header map; the attempt is a refresh when
\* the token data carry a refresh token and a new-token request otherwise;
\* token data and expiry stay as they were.
C22_NoTokenWhenInvalid ==
    [][((C21_Calls("get_token") \/ C21_Calls("get_auth_headers")) /\ ~C21_Valid) =>
          /\ auth_op' = "get_token" => auth_result'.value = NoValue
          /\ auth_op' = "get_auth_headers" => auth_result'.headers = {}
          /\ auth_attempt' =
                 IF token_data # TokenNone /\ "refresh_token" \in DOMAIN token_data
                 THEN "refresh" ELSE "new"
          /\ UNCHANGED <<token_data, token_expiry>>
    ]_vars

\* Inside the margin with a refresh token cached: a refresh was attempted and
\* the headers came back empty.
C22_Witness ==
    /\ auth_op = "get_auth_headers" /\ auth_result.headers = {}
    /\ auth_attempt = "refresh"
    /\ token_data = FullToken
    /\ token_expiry # NoExpiry /\ auth_clock >= token_expiry - 10

----------------------------------------------------------------------------
(* Claims about the settings module.                                       *)

\* The environment variable that overrides each top-level key.
C23_Variable == [environment |-> "ENVIRONMENT", log_level |-> "LOG_LEVEL"]

\* C23: the configuration is merged with precedence defaults < YAML file <
\* environment variables: a key set both in config.yaml and by its
\* environment variable has the variable's value, and a key of the api
\* section that the YAML file does not mention keeps its default.
C23_EnvironmentOverYamlOverDefaults ==
    settings_loaded =>
        LET yaml == LoadConfig(config_yaml)
        IN  /\ \A key \in DOMAIN C23_Variable :
                   (key \in DOMAIN yaml /\ C23_Variable[key] \in DOMAIN environ) =>
                       CONFIG[key] = environ[C23_Variable[key]]
            /\ \A k \in {"base_url", "retry_count"} :
                   /\ k \in DOMAIN CONFIG["api"]
                   /\ CONFIG["api"][k] = Defaults(EmptyDict)["api"][k]

----------------------------------------------------------------------------
(* Claims about setup_logger.                                              *)

\* C24: setup_logger is idempotent: after any number of calls for a name the
\* logger has exactly the two handlers of the first call, and a call made
\* when handlers are attached leaves the logger's handlers and level as they
\* were.
C24_SetupLoggerIdempotent ==
    [][logger_calls' # logger_calls =>
          LET name == logger_returned'
          IN  /\ Len(loggers'[name].handlers) = 2
              /\ loggers[name].handlers # <<>> => loggers'[name] = loggers[name]
              /\ \A other \in LoggerNames \ {name} : loggers'[other] = loggers[other]
    ]_vars

====
